---- MODULE Spec2Model ----
(***************************************************************************)
(* Reactive core of the repository: Watcher (src/unnamed/part_001), the    *)
(* reactive property accessors (src/unnamed/part_004), the computed        *)
(* property getter (src/src/core/instance/state.js) and, modelled from the *)
(* specification, Dep and the scheduler.  A second specification, SpecObs,  *)
(* covers the observation layer: observe / Observer / defineReactive / set  *)
(* / del (src/unnamed/part_004) and the array mutators                      *)
(* (src/src/core/observer/array.js), over a small heap of objects.          *)
(*                                                                         *)
(* The JavaScript call stack is explicit: `stack` holds one frame per      *)
(* running get(), callback, notify() loop or flush loop, and every action  *)
(* below executes the next statement of the frame on top.  User code (the  *)
(* expression and the callback of a watcher) is a script of operations.    *)
(***************************************************************************)
EXTENDS Integers, Sequences, FiniteSets, TLC

(* ------------------------------ bounds --------------------------------- *)
MaxWatchers == 2
MaxVal == 1

Keys == {"a", "b"}
Vals == 0..MaxVal
Undef == -1
\* the object an expression may return: a frozen object without properties
ObjRef == 100
NoTarget == 0

VARIABLES
  val,              \* closure variable `val` of each reactive property
  subs,             \* Dep.subs of each property's Dep
  W,                \* the Watcher objects, in construction order
  uid,              \* module-level uid of watcher.js
  vmWatchers,       \* vm._watchers
  computedWatchers, \* vm._computedWatchers['c'] (0: not defined)
  targetStack,      \* targetStack of dep.js; Dep.target is its last element
  stack,            \* the call stack
  exc,              \* an exception is propagating up the call stack
  queue, has, waiting, flushing, index, circular,  \* scheduler state
  pendingAtStart,   \* (history) watchers pending when the current flush began
  ranInFlush,       \* (history) watchers whose run() returned in this flush
  gh,               \* (history) per-flush bookkeeping of invalidations
  ev,               \* (history) what the last step did
  tick,             \* callbacks and pending of next-tick.js, the scheduled
                    \* timerFunc tasks, the copies flushCallbacks still has to call
  flushed,          \* the registered post-flush callbacks
  app,              \* the component tree above the component and config:
                    \* its ancestors, their errorCaptured hooks, errorHandler
  heap              \* the objects of the observation layer (SpecObs)

watcherVars == <<val, subs, W, uid, vmWatchers, computedWatchers, targetStack,
                 stack, exc, queue, has, waiting, flushing, index, circular,
                 pendingAtStart, ranInFlush, gh, ev, tick, flushed, app>>

vars == <<watcherVars, heap>>

(* ------------------------------ utilities ------------------------------ *)
Range(s) == {s[i] : i \in DOMAIN s}

Last(s) == s[Len(s)]

ButLast(s) == SubSeq(s, 1, Len(s) - 1)

RECURSIVE IndexOf(_, _, _)
IndexOf(s, x, i) ==
  IF i > Len(s) THEN 0
  ELSE IF s[i] = x THEN i ELSE IndexOf(s, x, i + 1)

\* remove(arr, item) of shared/util: drops the first occurrence
Remove(s, x) ==
  LET i == IndexOf(s, x, 1)
  IN IF i = 0 THEN s ELSE SubSeq(s, 1, i - 1) \o SubSeq(s, i + 1, Len(s))

InsertAfter(s, i, x) == SubSeq(s, 1, i) \o <<x>> \o SubSeq(s, i + 1, Len(s))

Get0(f, k) == IF k \in DOMAIN f THEN f[k] ELSE 0

Inc(f, k) == [x \in DOMAIN f \cup {k} |-> IF x = k THEN Get0(f, k) + 1 ELSE f[x]]

Refs == DOMAIN W

(* --------------------------- user code scripts -------------------------- *)
\* One operation of an expression or a callback; `acc` is the value the
\* expression has computed so far, the sum of what it has read.
\*   read k c  : evaluate O.k; c = "z": only when acc = 0, c = "nz": only when
\*               acc # 0 (a conditional branch), c = "-": always
\*   comp      : evaluate the computed property vm.c
\*   write k v c : O.k = v; c = "inc": O.k = (O.k + 1) % (MaxVal + 1)
\*   td r c    : tear down watcher r (0: the watcher running the script);
\*               c = "nz": only when acc # 0
\*   throw c   : throw an Error; c = "nz": only when acc # 0
\*   obj       : evaluate to an object (always the same one)
\*   nt        : call nextTick with a callback that does nothing
\*   hook n    : callHook(vm, hook) for a hook with n handlers
\*   data      : getData(data, vm)
Op(o, k, v, c) == [op |-> o, k |-> k, v |-> v, c |-> c]

\* a || b
ExprCond == <<Op("read", "a", 0, "-"), Op("read", "b", 0, "z")>>
\* a + c
ExprAComp == <<Op("read", "a", 0, "-"), Op("comp", "-", 0, "-")>>
\* (a, a = 1, a + b)
ExprSelfWrite ==
  <<Op("read", "a", 0, "-"), Op("write", "a", 1, "-"), Op("read", "b", 0, "-")>>
\* a ? (unwatch(), a + b) : 0
ExprTd == <<Op("read", "a", 0, "-"), Op("td", "-", 0, "nz"), Op("read", "b", 0, "nz")>>

\* (a, theObject)
ExprObj == <<Op("read", "a", 0, "-"), Op("obj", "-", 0, "-")>>

CbNoop == <<>>
CbTd == <<Op("td", "-", 1, "-")>>
CbWrite == <<Op("write", "b", 1, "-")>>
\* a callback that changes the property its watcher depends on
CbInc == <<Op("write", "a", 0, "inc")>>
\* a callback that throws
CbThrow == <<Op("throw", "-", 0, "-")>>
\* a callback that calls nextTick
CbTick == <<Op("nt", "-", 0, "-")>>

\* a ? throw : 0
ExprThrow == <<Op("read", "a", 0, "-"), Op("throw", "-", 0, "nz")>>

\* what a hook, a handler or a data function does: code and result
Code(script, ret) == [cb |-> script, ret |-> ret]
\* function () {}
HookPass == Code(<<>>, "undefined")
\* function () { this.b; return false }
HookCapture == Code(<<Op("read", "b", 0, "-")>>, "false")
\* function () { this.b; throw new Error() }
HookThrow == Code(<<Op("read", "b", 0, "-"), Op("throw", "-", 0, "-")>>, "undefined")
HookCodes == {HookPass, HookCapture, HookThrow}

\* (callHook(vm, hook), a): an expression that runs a lifecycle hook with
\* two handlers, as a render function that creates a child component does
ExprHook == <<Op("hook", "-", 2, "-"), Op("read", "a", 0, "-")>>
\* (getData(data, vm), a)
ExprData == <<Op("data", "-", 0, "-"), Op("read", "a", 0, "-")>>

LazyGetters == {ExprCond, ExprThrow}
RenderGetters == {ExprCond, ExprAComp}
\* the $watch calls of the model: <<sync, expOrFn, cb>>
WatchCalls ==
  { <<FALSE, ExprCond, CbWrite>>, <<FALSE, ExprCond, CbTd>>,
    <<TRUE, ExprCond, CbTd>>, <<TRUE, ExprAComp, CbNoop>>,
    <<TRUE, ExprSelfWrite, CbNoop>>,
    <<FALSE, ExprTd, CbNoop>>, <<TRUE, ExprTd, CbNoop>> }

\* the $watch calls of the run specification: <<sync, expOrFn, cb>>, and
\* <<expOrFn, cb>> for the calls with the option deep
RunCalls ==
  { <<FALSE, ExprCond, CbWrite>>, <<TRUE, ExprCond, CbNoop>>,
    <<FALSE, ExprObj, CbNoop>>, <<FALSE, ExprThrow, CbNoop>> }

DeepCalls == {<<ExprCond, CbNoop>>, <<ExprObj, CbNoop>>}

\* the $watch calls of the flush specification
FlushCalls == {<<FALSE, ExprCond, CbInc>>, <<FALSE, ExprCond, CbWrite>>}

Cond(c, acc) == c = "-" \/ (c = "z" /\ acc = 0) \/ (c = "nz" /\ acc # 0)

\* The value an expression returns on the current state, without tracking.
RECURSIVE PureValue(_, _, _)
PureValue(script, pc, acc) ==
  IF pc > Len(script) THEN acc
  ELSE LET o == script[pc]
       IN CASE o.op = "read" ->
                 PureValue(script, pc + 1,
                           IF Cond(o.c, acc) THEN acc + val[o.k] ELSE acc)
            [] o.op = "comp" ->
                 LET c == IF computedWatchers = 0 THEN 0
                          ELSE PureValue(W[computedWatchers].getter, 1, 0)
                 IN IF c = Undef THEN Undef
                    ELSE PureValue(script, pc + 1, acc + c)
            [] o.op = "obj" -> PureValue(script, pc + 1, ObjRef)
            [] o.op = "throw" ->
                 IF Cond(o.c, acc) THEN Undef ELSE PureValue(script, pc + 1, acc)
            [] OTHER -> PureValue(script, pc + 1, acc)

(* ------------------------------ the state ------------------------------ *)
\* Every piece of code below is a function from state record to state record;
\* an action applies one of them to the current state.
Cur ==
  [val |-> val, subs |-> subs, W |-> W, uid |-> uid, vmWatchers |-> vmWatchers,
   computedWatchers |-> computedWatchers, targetStack |-> targetStack,
   stack |-> stack, exc |-> exc, queue |-> queue, has |-> has, waiting |-> waiting,
   flushing |-> flushing, index |-> index, circular |-> circular,
   pendingAtStart |-> pendingAtStart, ranInFlush |-> ranInFlush,
   gh |-> gh, ev |-> <<>>, tick |-> tick, flushed |-> flushed, app |-> app]

Apply(n) ==
  /\ val' = n.val /\ subs' = n.subs /\ W' = n.W /\ uid' = n.uid
  /\ vmWatchers' = n.vmWatchers /\ computedWatchers' = n.computedWatchers
  /\ targetStack' = n.targetStack /\ stack' = n.stack /\ exc' = n.exc
  /\ queue' = n.queue /\ has' = n.has /\ waiting' = n.waiting
  /\ flushing' = n.flushing /\ index' = n.index /\ circular' = n.circular
  /\ pendingAtStart' = n.pendingAtStart /\ ranInFlush' = n.ranInFlush
  /\ gh' = n.gh /\ ev' = n.ev /\ tick' = n.tick /\ flushed' = n.flushed
  /\ app' = n.app
  /\ UNCHANGED heap

Event(s, e) == [s EXCEPT !.ev = Append(@, e)]

Push(s, f) == [s EXCEPT !.stack = Append(@, f)]

Pop(s) == [s EXCEPT !.stack = ButLast(@)]

Top(s) == Last(s.stack)

\* the frame on top moves to its next statement
Advance(s) == [s EXCEPT !.stack[Len(s.stack)].pc = @ + 1]

\* a called function returns v to the user code below it
Deliver(s, v) ==
  IF s.stack = <<>> THEN s
  ELSE LET f == Top(s)
       IN IF f.kind = "get"
          THEN [s EXCEPT !.stack[Len(s.stack)].acc = @ + v,
                         !.stack[Len(s.stack)].pc = @ + 1]
          ELSE Advance(s)

\* the flush loop of the scheduler is running
InFlush(s) == s.stack # <<>> /\ s.stack[1].kind = "flush"

\* (history) Dep d was read while watcher t was the active computation
Touch(s, t, d) ==
  [s EXCEPT !.stack = [i \in DOMAIN s.stack |->
     IF s.stack[i].kind = "get" /\ s.stack[i].w = t
     THEN [s.stack[i] EXCEPT !.touched = @ \cup {d}]
     ELSE s.stack[i]]]

(* --------------------------------- Dep ---------------------------------- *)
DepTarget(s) == IF s.targetStack = <<>> THEN NoTarget ELSE Last(s.targetStack)

PushTarget(s, t) == [s EXCEPT !.targetStack = Append(@, t)]

PopTarget(s) == [s EXCEPT !.targetStack = ButLast(@)]

AddSub(s, d, r) == [s EXCEPT !.subs[d] = Append(@, r)]

RemoveSub(s, d, r) == [s EXCEPT !.subs[d] = Remove(@, r)]

(* ------------------------------- Watcher -------------------------------- *)
\* addDep() that records the Dep but never calls dep.addSub(this)
AddDep_NoAddSub(s, r, d) ==
  IF d \notin s.W[r].newDepIds
  THEN [s EXCEPT !.W[r].newDepIds = @ \cup {d}, !.W[r].newDeps = Append(@, d)]
  ELSE s

\* addDep that calls dep.addSub without looking the id up in depIds
AddDep_NoDepIds(s, r, d) ==
  IF d \notin s.W[r].newDepIds
  THEN AddSub([s EXCEPT !.W[r].newDepIds = @ \cup {d},
                        !.W[r].newDeps = Append(@, d)], d, r)
  ELSE s

AddDep(s, r, d) ==
  IF d \notin s.W[r].newDepIds
  THEN LET s1 == [s EXCEPT !.W[r].newDepIds = @ \cup {d},
                           !.W[r].newDeps = Append(@, d)]
       IN IF d \notin s.W[r].depIds THEN AddSub(s1, d, r) ELSE s1
  ELSE s

DepDepend(s, d) ==
  IF DepTarget(s) = NoTarget THEN s
  ELSE AddDep(Touch(s, DepTarget(s), d), DepTarget(s), d)

RECURSIVE WatcherDependFrom(_, _, _)
WatcherDependFrom(s, r, i) ==
  IF i = 0 THEN s
  ELSE WatcherDependFrom(DepDepend(s, s.W[r].deps[i]), r, i - 1)

WatcherDepend(s, r) == WatcherDependFrom(s, r, Len(s.W[r].deps))

RECURSIVE CleanupFrom(_, _, _, _)
CleanupFrom(s, w, r, i) ==
  IF i = 0 THEN s
  ELSE CleanupFrom(IF w.deps[i] \notin w.newDepIds
                   THEN RemoveSub(s, w.deps[i], r) ELSE s, w, r, i - 1)

\* cleanupDeps() that swaps the collections but never calls dep.removeSub(this)
CleanupDeps_NoRemoveSub(s, r) ==
  LET w == s.W[r]
  IN [s EXCEPT !.W[r].depIds = w.newDepIds,
               !.W[r].newDepIds = {},
               !.W[r].deps = w.newDeps,
               !.W[r].newDeps = <<>>]

CleanupDeps(s, r) ==
  LET w == s.W[r]
      s1 == CleanupFrom(s, w, r, Len(w.deps))
  IN [s1 EXCEPT !.W[r].depIds = w.newDepIds,
                !.W[r].newDepIds = {},
                !.W[r].deps = w.newDeps,
                !.W[r].newDeps = <<>>]

RECURSIVE TeardownFrom(_, _, _, _)
TeardownFrom(s, w, r, i) ==
  IF i = 0 THEN s ELSE TeardownFrom(RemoveSub(s, w.deps[i], r), w, r, i - 1)

WatcherTeardown(s, r) ==
  IF s.W[r].active
  THEN LET s1 == [s EXCEPT !.vmWatchers = Remove(@, r)]
           s2 == TeardownFrom(s1, s.W[r], r, Len(s.W[r].deps))
       IN Event([s2 EXCEPT !.W[r].active = FALSE], [t |-> "teardown", w |-> r, v |-> 1])
  ELSE Event(s, [t |-> "teardown", w |-> r, v |-> 0])

\* get(), first half: pushTarget(this) and the call of the getter
WatcherGet(s, r, caller) ==
  LET s1 == [s EXCEPT
               !.W[r].evals = IF s.W[r].lazy /\ @ < 2 THEN @ + 1 ELSE @,
               !.gh.runs = IF InFlush(s) THEN Inc(@, r) ELSE @]
  IN Event(Push(PushTarget(s1, r),
                [kind |-> "get", w |-> r, pc |-> 1, acc |-> 0, caller |-> caller,
                 touched |-> {}]),
           [t |-> "getter", w |-> r, v |-> IF s.W[r].active THEN 1 ELSE 0])

(* ------------------------------ scheduler ------------------------------- *)
\* the limit of the circular-update check (100 in the program), scaled down
MAX_UPDATE_COUNT == 2

\* queue.sort((a, b) => a.id - b.id)
RECURSIVE InsertSorted(_, _, _)
InsertSorted(q, r, ws) ==
  IF q = <<>> THEN <<r>>
  ELSE IF ws[Last(q)].id > ws[r].id
       THEN Append(InsertSorted(ButLast(q), r, ws), Last(q))
       ELSE Append(q, r)

RECURSIVE SortById(_, _)
SortById(q, ws) ==
  IF q = <<>> THEN <<>>
  ELSE InsertSorted(SortById(ButLast(q), ws), Last(q), ws)

\* the position after which queueWatcher splices a watcher in during a flush
RECURSIVE InsertPos(_, _, _, _, _)
InsertPos(q, ws, idx, id, j) ==
  IF j - 1 > idx /\ ws[q[j]].id > id THEN InsertPos(q, ws, idx, id, j - 1) ELSE j

\* the callbacks handed to nextTick: flushSchedulerQueue, or user code
FlushCb == [fn |-> "flushSchedulerQueue", cb |-> <<>>, ctx |-> 0]

UserCb(script) == [fn |-> "user", cb |-> script, ctx |-> 0]

\* nextTick that calls timerFunc whatever pending is
NextTick_NoPending(s, c) ==
  [s EXCEPT !.tick.callbacks = Append(@, c), !.tick.pending = TRUE,
            !.tick.timers = @ + 1]

\* nextTick(cb): timerFunc() hands flushCallbacks to the event loop
NextTick(s, c) ==
  LET s1 == [s EXCEPT !.tick.callbacks = Append(@, c)]
  IN IF ~s.tick.pending
     THEN [s1 EXCEPT !.tick.pending = TRUE, !.tick.timers = @ + 1]
     ELSE s1

\* flushCallbacks up to its loop; the task that ran is no longer scheduled
\* nextTick(cb, ctx) with a context of its own: (history) the contexts are
\* numbered in the order of the calls
NextTickCtx(s, script) ==
  NextTick([s EXCEPT !.tick.count = @ + 1],
           [fn |-> "user", cb |-> script, ctx |-> s.tick.count + 1])

\* flushCallbacks that leaves pending set
FlushCallbacks_KeepPending(s) ==
  [s EXCEPT !.tick.copies = s.tick.callbacks,
            !.tick.callbacks = <<>>, !.tick.timers = @ - 1]

FlushCallbacks(s) ==
  [s EXCEPT !.tick.pending = FALSE, !.tick.copies = s.tick.callbacks,
            !.tick.callbacks = <<>>, !.tick.timers = @ - 1]

\* queueWatcher that appends at the end also during a flush
QueueWatcher_Append(s, r) ==
  LET id == s.W[r].id
      s1 == [s EXCEPT !.has = @ \cup {id}, !.queue = Append(@, r),
                      !.waiting = TRUE, !.gh.enq = Inc(@, r)]
  IN IF id \in s.has THEN s
     ELSE IF ~s.waiting THEN NextTick(s1, FlushCb) ELSE s1

QueueWatcher(s, r) ==
  LET id == s.W[r].id
      s1 == [s EXCEPT
               !.has = @ \cup {id},
               !.queue = IF ~s.flushing THEN Append(@, r)
                         ELSE InsertAfter(@, InsertPos(@, s.W, s.index, id, Len(@)), r),
               !.waiting = TRUE,
               !.gh.enq = Inc(@, r)]
  IN IF id \in s.has THEN s
     ELSE IF ~s.waiting THEN NextTick(s1, FlushCb) ELSE s1

ResetSchedulerState(s) ==
  [s EXCEPT !.index = 0, !.queue = <<>>, !.has = {}, !.circular = <<>>,
            !.waiting = FALSE, !.flushing = FALSE]

(* ----------------------- Watcher: update, run, ... ---------------------- *)
WatcherRun(s, r) ==
  IF s.W[r].active THEN WatcherGet(s, r, "run") ELSE s

\* update() that runs every non-lazy watcher at once, whatever its sync option
WatcherUpdate_AlwaysSync(s, r) ==
  IF s.W[r].lazy
  THEN [s EXCEPT !.W[r].dirty = TRUE, !.W[r].evals = 0, !.W[r].failed = FALSE]
  ELSE WatcherRun(s, r)

\* update() without the branch for lazy watchers
WatcherUpdate_NoLazy(s, r) ==
  IF s.W[r].sync THEN WatcherRun(s, r) ELSE QueueWatcher(s, r)

WatcherUpdate(s, r) ==
  IF s.W[r].lazy
  THEN [s EXCEPT !.W[r].dirty = TRUE, !.W[r].evals = 0, !.W[r].failed = FALSE]
  ELSE IF s.W[r].sync THEN WatcherRun(s, r)
  ELSE QueueWatcher(s, r)

\* isObject(value)
IsObjectValue(value) == value = ObjRef

\* (history) run() compares value with the cached this.value
RunEvent(s, r, value) ==
  Event(s, [t |-> "run", w |-> r, v |-> value, old |-> s.W[r].value])

\* run() that leaves the deep option out of its test
RunAfterGet_IgnoreDeep(s, r, value) ==
  IF value # s.W[r].value \/ IsObjectValue(value)
  THEN LET s1 == Event([RunEvent(s, r, value) EXCEPT
                          !.W[r].value = value,
                          !.gh.cbs = IF InFlush(s) THEN Inc(@, r) ELSE @],
                       [t |-> "cb", w |-> r, v |-> IF s.W[r].active THEN 1 ELSE 0,
                        nv |-> value, ov |-> s.W[r].value])
       IN IF s.W[r].cb = <<>> THEN s1
          ELSE Push(s1, [kind |-> "cb", w |-> r, pc |-> 1])
  ELSE RunEvent(s, r, value)

\* run() that invokes the callback without storing the new value
RunAfterGet_NoStore(s, r, value) ==
  IF value # s.W[r].value \/ IsObjectValue(value) \/ s.W[r].deep
  THEN LET s1 == Event([RunEvent(s, r, value) EXCEPT
                          !.gh.cbs = IF InFlush(s) THEN Inc(@, r) ELSE @],
                       [t |-> "cb", w |-> r, v |-> IF s.W[r].active THEN 1 ELSE 0,
                        nv |-> value, ov |-> s.W[r].value])
       IN IF s.W[r].cb = <<>> THEN s1
          ELSE Push(s1, [kind |-> "cb", w |-> r, pc |-> 1])
  ELSE RunEvent(s, r, value)

\* run(), after get() has returned value
RunAfterGet(s, r, value) ==
  IF value # s.W[r].value \/ IsObjectValue(value) \/ s.W[r].deep
  THEN LET s1 == Event([RunEvent(s, r, value) EXCEPT
                          !.W[r].value = value,
                          !.gh.cbs = IF InFlush(s) THEN Inc(@, r) ELSE @],
                       [t |-> "cb", w |-> r, v |-> IF s.W[r].active THEN 1 ELSE 0,
                        nv |-> value, ov |-> s.W[r].value])
       IN IF s.W[r].cb = <<>> THEN s1
          ELSE Push(s1, [kind |-> "cb", w |-> r, pc |-> 1])
  ELSE RunEvent(s, r, value)

\* computedGetter, after the watcher.dirty test
ComputedGetterTail(s, c) ==
  LET s1 == IF DepTarget(s) # NoTarget THEN WatcherDepend(s, c) ELSE s
  IN Deliver(Event(s1, [t |-> "computed", w |-> c, v |-> s.W[c].value]),
             s.W[c].value)

\* evaluate(), after get() has returned value
EvaluateAfterGet(s, r, value) ==
  [s EXCEPT !.W[r].value = value, !.W[r].dirty = FALSE]

\* computedGetter that calls watcher.evaluate() without testing watcher.dirty
ComputedGetter_NoCache(s) ==
  LET c == s.computedWatchers
  IN IF c = 0 THEN Deliver(s, 0) ELSE WatcherGet(s, c, "evaluate")

ComputedGetter(s) ==
  LET c == s.computedWatchers
  IN IF c = 0 THEN Deliver(s, 0)
     ELSE IF s.W[c].dirty THEN WatcherGet(s, c, "evaluate")
     ELSE ComputedGetterTail(s, c)

\* (history) the lazy watchers whose value the evaluation in frame f obtained
LazyRead(s, f) ==
  IF s.computedWatchers # 0
     /\ \E i \in 1..(f.pc - 1) : s.W[f.w].getter[i].op = "comp"
  THEN {s.computedWatchers} ELSE {}

\* traverse(value): it returns at once for a value that is not an object,
\* and the object of the model is frozen
Traverse(s, value) == s

\* a finally block that leaves the watcher on the target stack
WatcherGetFinally_NoPopTarget(s) ==
  LET f == Top(s)
      r == f.w
      s0 == IF s.W[r].deep THEN Traverse(s, f.acc) ELSE s
      s1 == CleanupDeps(Pop(s0), r)
  IN Event([s1 EXCEPT !.W[r].dropped = s.W[r].read \ f.touched,
                      !.W[r].read = f.touched,
                      !.W[r].readLazy = LazyRead(s, f),
                      !.W[r].lastGet = f.acc],
           [t |-> "getEnd", w |-> r, v |-> f.acc, prev |-> s.W[r].lastGet])

\* get(), the finally block
WatcherGetFinally(s) ==
  LET f == Top(s)
      r == f.w
      s0 == IF s.W[r].deep THEN Traverse(s, f.acc) ELSE s
      s1 == CleanupDeps(PopTarget(Pop(s0)), r)
  IN Event([s1 EXCEPT !.W[r].dropped = s.W[r].read \ f.touched,
                      !.W[r].read = f.touched,
                      !.W[r].readLazy = LazyRead(s, f),
                      !.W[r].lastGet = f.acc],
           [t |-> "getEnd", w |-> r, v |-> f.acc, prev |-> s.W[r].lastGet])

\* get() returns value to the code that called it
WatcherGetReturn(s) ==
  LET f == Top(s)
      r == f.w
      s2 == WatcherGetFinally(s)
  IN CASE f.caller = "ctor" -> [s2 EXCEPT !.W[r].value = f.acc]
       [] f.caller = "run" -> RunAfterGet(s2, r, f.acc)
       [] f.caller = "evaluate" ->
            ComputedGetterTail(EvaluateAfterGet(s2, r, f.acc), r)

\* handleError(e, vm, info): the error reaches the sink
\* the errorCaptured hooks of the ancestors of the component, numbered from
\* the first hook of the nearest parent to the last hook of the root
HookTotal(s) == s.app.ancestors * s.app.hooks

\* no ancestor has an errorCaptured hook and config.errorHandler is not set
NoErrorHooks(s) == HookTotal(s) = 0 /\ ~s.app.handler

\* the ancestor hook k belongs to: 1 is the parent
HookOwner(s, k) == ((k - 1) \div s.app.hooks) + 1

\* handleError: finally { popTarget() }, and the return; (history) the call
\* reports the hooks it visited, the errors it gave to globalHandleError and
\* the stack of active computations it leaves
HandleErrorEnd(s) ==
  LET f == Top(s)
  IN Event(PopTarget(Pop(s)),
           [t |-> "handled", w |-> f.w, v |-> 0, vm |-> f.vm,
            visited |-> f.visited, threw |-> f.threw, reports |-> f.reports,
            captured |-> f.captured, saved |-> f.saved, total |-> HookTotal(s),
            restored |-> ButLast(s.targetStack)])

\* globalHandleError has returned: the loop over the hooks goes on, or
\* handleError returns
HandleErrorNext(s) ==
  IF Top(s).next = "loop"
  THEN [s EXCEPT !.stack[Len(s.stack)].phase = "loop",
                 !.stack[Len(s.stack)].k = @ + 1]
  ELSE HandleErrorEnd(s)

\* logError(err, vm, info) in a browser: console.error(err)
LogError(s, v) == Event(s, [t |-> "log", w |-> Top(s).w, v |-> v])

\* globalHandleError(err, vm, info); v = 0: the error handleError was called
\* with, v = 1: the error of an errorCaptured hook; b: what errorHandler does
GlobalHandleError(s, v, next, b) ==
  LET n == Len(s.stack)
      s1 == Event([s EXCEPT !.stack[n].reports = Append(@, v),
                            !.stack[n].next = next, !.stack[n].gv = v],
                  [t |-> "error", w |-> Top(s).w, v |-> v, vm |-> Top(s).vm])
  IN IF s.app.handler
     THEN Push([s1 EXCEPT !.stack[n].phase = "handler"],
               [kind |-> "errorHandler", cb |-> b.cb, pc |-> 1, ret |-> b.ret])
     ELSE HandleErrorNext(LogError(s1, v))

\* a handleError that calls globalHandleError also after a hook returned false
HandleErrorStep_NoCapture(s, b) ==
  LET n == Len(s.stack)
      f == Top(s)
  IN IF f.phase = "hookError" THEN GlobalHandleError(s, 1, "loop", b)
     ELSE IF f.k <= HookTotal(s) /\ ~f.captured
     THEN Push(Event([s EXCEPT !.stack[n].visited = Append(@, f.k),
                               !.stack[n].phase = "hook"],
                     [t |-> "errorCaptured", w |-> f.w, v |-> f.k]),
               [kind |-> "hook", cb |-> b.cb, pc |-> 1, ret |-> b.ret])
     ELSE GlobalHandleError(s, 0, "end", b)

\* handleError between two calls of user code: the next errorCaptured hook,
\* globalHandleError for the error a hook threw, or, after the last hook,
\* globalHandleError for the error itself
HandleErrorStep(s, b) ==
  LET n == Len(s.stack)
      f == Top(s)
  IN IF f.phase = "hookError" THEN GlobalHandleError(s, 1, "loop", b)
     ELSE IF f.captured THEN HandleErrorEnd(s)
     ELSE IF f.k <= HookTotal(s)
     THEN Push(Event([s EXCEPT !.stack[n].visited = Append(@, f.k),
                               !.stack[n].phase = "hook"],
                     [t |-> "errorCaptured", w |-> f.w, v |-> f.k]),
               [kind |-> "hook", cb |-> b.cb, pc |-> 1, ret |-> b.ret])
     ELSE GlobalHandleError(s, 0, "end", b)

\* an errorCaptured hook has returned: capture = hooks[i].call(...) === false
HookReturn(s) ==
  LET s1 == Pop(s)
      n == Len(s1.stack)
  IN IF Top(s).ret = "false"
     THEN [s1 EXCEPT !.stack[n].captured = TRUE, !.stack[n].phase = "loop"]
     ELSE [s1 EXCEPT !.stack[n].phase = "loop", !.stack[n].k = @ + 1]

\* handleError(err, vm, info); vm is the component the error is attributed
\* to: 0 for the component of the watchers, the context of the callback for
\* nextTick; r is the watcher whose code threw, if any.  Without
\* errorCaptured hooks and errorHandler no user code runs inside.
HandleError(s, vm, r) ==
  IF NoErrorHooks(s)
  THEN \* pushTarget(), globalHandleError, logError, popTarget()
       [s EXCEPT !.gh.errs = IF InFlush(s) /\ r # 0 THEN @ \cup {r} ELSE @,
                 !.ev = @ \o <<[t |-> "error", w |-> r, v |-> 0, vm |-> vm],
                               [t |-> "log", w |-> r, v |-> 0],
                               [t |-> "handled", w |-> r, v |-> 0, vm |-> vm,
                                visited |-> <<>>, threw |-> <<>>,
                                reports |-> <<0>>, captured |-> FALSE,
                                saved |-> s.targetStack, total |-> 0,
                                restored |-> ButLast(Append(s.targetStack, NoTarget))]>>]
  ELSE Push(PushTarget([s EXCEPT !.gh.errs = IF InFlush(s) /\ r # 0
                                             THEN @ \cup {r} ELSE @],
                       NoTarget),
            [kind |-> "handleError", vm |-> vm, w |-> r, k |-> 1,
             phase |-> "loop", next |-> "end", gv |-> 0,
             visited |-> <<>>, threw |-> <<>>, reports |-> <<>>,
             captured |-> FALSE, saved |-> s.targetStack])

\* callHook without pushTarget() and popTarget()
CallHook_Tracking(s, n) ==
  Push(PushTarget(s, DepTarget(s)),
       [kind |-> "callHook", j |-> 1, n |-> n, saved |-> s.targetStack])

\* callHook(vm, hook) for a hook with n handlers: pushTarget()
CallHook(s, n) ==
  Push(PushTarget(s, NoTarget),
       [kind |-> "callHook", j |-> 1, n |-> n, saved |-> s.targetStack])

\* the loop of callHook: invokeWithErrorHandling(handlers[i], ...), and after
\* the last handler popTarget(); b is what the handler does
CallHookStep(s, b) ==
  LET f == Top(s)
  IN IF f.j <= f.n
     THEN Push([s EXCEPT !.stack[Len(s.stack)].j = @ + 1],
               [kind |-> "life", cb |-> b.cb, pc |-> 1, ret |-> b.ret])
     ELSE Event(PopTarget(Pop(s)),
                [t |-> "resumed", w |-> 0, v |-> 0, saved |-> f.saved,
                 restored |-> ButLast(s.targetStack)])

\* getData(data, vm): pushTarget(); try { return data.call(vm, vm) }
GetData(s, b) ==
  Push(Push(PushTarget(s, NoTarget), [kind |-> "getData", saved |-> s.targetStack]),
       [kind |-> "data", cb |-> b.cb, pc |-> 1, ret |-> b.ret])

\* getData: finally { popTarget() }
GetDataEnd(s) ==
  Event(PopTarget(Pop(s)),
        [t |-> "resumed", w |-> 0, v |-> 0, saved |-> Top(s).saved,
         restored |-> ButLast(s.targetStack)])

\* an exception leaves the stack: the code that started the turn receives it
Uncaught(s) == IF s.stack = <<>> THEN [s EXCEPT !.exc = FALSE] ELSE s

\* run() without the try/catch around the callback
Unwind_CbRethrow(s) ==
  LET f == Top(s)
  IN CASE f.kind = "get" ->
            IF s.W[f.w].user
            THEN WatcherGetReturn(
                   HandleError([s EXCEPT !.exc = FALSE,
                                         !.stack[Len(s.stack)].acc = Undef], 0, f.w))
            ELSE Uncaught([WatcherGetFinally(s) EXCEPT !.W[f.w].failed = TRUE])
       [] OTHER -> Uncaught(Pop(s))

\* get() without its finally block
Unwind_NoFinally(s) ==
  LET f == Top(s)
  IN CASE f.kind = "get" ->
            IF s.W[f.w].user
            THEN HandleError(Pop([s EXCEPT !.exc = FALSE]), 0, f.w)
            ELSE Uncaught([Pop(s) EXCEPT !.W[f.w].failed = TRUE])
       [] f.kind = "cb" ->
            IF s.W[f.w].user
            THEN HandleError(Pop([s EXCEPT !.exc = FALSE]), 0, f.w)
            ELSE Uncaught(Pop(s))
       [] OTHER -> Uncaught(Pop(s))

\* nextTick without the try/catch around the callback
Unwind_TickRethrow(s) ==
  LET f == Top(s)
  IN CASE f.kind = "get" ->
            IF s.W[f.w].user
            THEN WatcherGetReturn(
                   HandleError([s EXCEPT !.exc = FALSE,
                                         !.stack[Len(s.stack)].acc = Undef], 0, f.w))
            ELSE Uncaught([WatcherGetFinally(s) EXCEPT !.W[f.w].failed = TRUE])
       [] f.kind = "cb" ->
            IF s.W[f.w].user
            THEN HandleError(Pop([s EXCEPT !.exc = FALSE]), 0, f.w)
            ELSE Uncaught(Pop(s))
       [] OTHER -> Uncaught(Pop(s))

\* the exception reaches the frame on top
Unwind(s) ==
  LET f == Top(s)
      n == Len(s.stack)
  IN CASE f.kind = "get" ->
            \* get(): catch (e) { if (this.user) handleError(...) else throw e }
            IF s.W[f.w].user
            THEN IF NoErrorHooks(s)
                 THEN WatcherGetReturn(
                        HandleError([s EXCEPT !.exc = FALSE,
                                              !.stack[n].acc = Undef], 0, f.w))
                 ELSE HandleError(
                        [s EXCEPT !.exc = FALSE, !.stack[n].acc = Undef,
                                  !.stack[n].pc = Len(s.W[f.w].getter) + 1],
                        0, f.w)
            ELSE Uncaught([WatcherGetFinally(s) EXCEPT !.W[f.w].failed = TRUE])
       [] f.kind = "cb" ->
            \* run(): the try/catch around the callback of a user watcher
            IF s.W[f.w].user
            THEN HandleError(Pop([s EXCEPT !.exc = FALSE]), 0, f.w)
            ELSE Uncaught(Pop(s))
       [] f.kind = "tick" ->
            \* nextTick: catch (e) { handleError(e, ctx, 'nextTick') }
            HandleError(Pop([s EXCEPT !.exc = FALSE]), f.ctx, 0)
       [] f.kind = "hook" ->
            \* handleError: catch (e) { globalHandleError(e, cur, ...) }
            [Pop(s) EXCEPT !.exc = FALSE,
                           !.stack[n - 1].phase = "hookError",
                           !.stack[n - 1].threw = Append(@, s.stack[n - 1].k)]
       [] f.kind = "errorHandler" ->
            \* globalHandleError: catch (e) { if (e !== err) logError(e, ...) }
            \* and then logError(err, vm, info)
            LET s1 == Pop([s EXCEPT !.exc = FALSE])
            IN HandleErrorNext(LogError(LogError(s1, 2), Top(s1).gv))
       [] f.kind \in {"life", "data"} ->
            \* invokeWithErrorHandling and getData: catch (e) { handleError(e, vm, info) }
            HandleError(Pop([s EXCEPT !.exc = FALSE]), 0, 0)
       [] OTHER -> Uncaught(Pop(s))

(* ------------------------- reactive properties -------------------------- *)
ReactiveGetter(s, k) == Deliver(DepDepend(s, k), s.val[k])

DepNotify(s, d) ==
  Event(Push(s, [kind |-> "notify", dep |-> d, snap |-> s.subs[d], i |-> 1]),
        [t |-> "notify", w |-> 0, v |-> 0, dep |-> d, snap |-> s.subs[d]])

\* (history) which watchers read k in their last evaluation
Readers(s, k) ==
  {<<r, k>> : r \in {x \in DOMAIN s.W : k \in s.W[x].read /\ ~s.W[x].lazy /\ ~s.W[x].sync}}

ReactiveSetter(s, k, newVal) ==
  IF newVal = s.val[k] THEN s
  ELSE DepNotify([s EXCEPT !.val[k] = newVal,
                           !.gh.inval = IF InFlush(s) THEN @ ELSE @ \cup Readers(s, k),
                           !.gh.mut = IF InFlush(s) THEN @ \cup Readers(s, k) ELSE @],
                 k)

(* ------------------------------ user code ------------------------------- *)
\* the kinds of frames of user code called with tracking suspended
HookKinds == {"hook", "errorHandler", "life", "data"}

UserFrame(s) == s.stack # <<>> /\ Top(s).kind \in {"get", "cb", "tick"} \cup HookKinds

Script(s) ==
  IF Top(s).kind = "get" THEN s.W[Top(s).w].getter
  ELSE IF Top(s).kind \in {"tick"} \cup HookKinds THEN Top(s).cb
  ELSE s.W[Top(s).w].cb

HasOp(s) == ~s.exc /\ UserFrame(s) /\ Top(s).pc <= Len(Script(s))

CurOp(s) == Script(s)[Top(s).pc]

TdTarget(s, o) == IF o.v = 0 THEN Top(s).w ELSE o.v

\* the value a write operation assigns
WriteValue(s, o) ==
  IF o.c = "inc" THEN (s.val[o.k] + 1) % (MaxVal + 1) ELSE o.v

(* ------------------------------ flush loop ------------------------------ *)
GhEmpty ==
  [inval |-> {}, mut |-> {}, enq |-> <<>>, runs |-> <<>>, cbs |-> <<>>, errs |-> {}]

\* flushSchedulerQueue up to the loop
FlushStart(s) ==
  LET q == SortById(s.queue, s.W)
  IN Push([s EXCEPT !.flushing = TRUE, !.queue = q, !.index = 0,
                    !.pendingAtStart = Range(q), !.ranInFlush = {},
                    !.gh.runs = <<>>],
          [kind |-> "flush", pc |-> "test"])

\* a loop without the circular-update check
FlushAfterRun_NoGuard(s) ==
  LET r == s.queue[s.index + 1]
  IN [s EXCEPT !.ranInFlush = @ \cup {r}, !.index = @ + 1,
               !.stack[Len(s.stack)].pc = "test"]

\* the loop body after watcher.run() has returned: the circular-update check
FlushAfterRun(s) ==
  LET r == s.queue[s.index + 1]
      id == s.W[r].id
      s1 == [s EXCEPT !.ranInFlush = @ \cup {r}]
  IN IF id \in s1.has
     THEN LET s2 == [s1 EXCEPT !.circular = Inc(@, id)]
          IN IF s2.circular[id] > MAX_UPDATE_COUNT
             THEN Event([s2 EXCEPT !.stack[Len(s.stack)].pc = "break"],
                        [t |-> "warn", w |-> r, v |-> 0])
             ELSE [s2 EXCEPT !.index = @ + 1, !.stack[Len(s.stack)].pc = "test"]
     ELSE [s1 EXCEPT !.index = @ + 1, !.stack[Len(s.stack)].pc = "test"]

\* the loop body up to watcher.run()
FlushBody(s) ==
  LET r == s.queue[s.index + 1]
      s1 == IF s.W[r].before
            THEN Event(s, [t |-> "before", w |-> r, v |-> 0]) ELSE s
      s2 == [s1 EXCEPT !.has = @ \ {s.W[r].id},
                       !.stack[Len(s.stack)].pc = "after"]
  IN WatcherRun(Event(s2, [t |-> "flushRun", w |-> r, v |-> 0]), r)

\* the post-flush callbacks are invoked, in the order of their registration;
\* (history) each invocation records the scheduler state it finds
RECURSIVE CallFlushed(_, _)
CallFlushed(s, i) ==
  IF i > Len(s.flushed) THEN s
  ELSE CallFlushed(Event(s, [t |-> "flushed", w |-> s.flushed[i], v |-> 0,
                             queue |-> s.queue, has |-> s.has,
                             waiting |-> s.waiting, flushing |-> s.flushing]),
                   i + 1)

\* an end of the flush that invokes the post-flush callbacks before the reset
FlushEnd_CallbacksFirst(s) ==
  LET s1 == ResetSchedulerState(CallFlushed(Pop(s), 1))
  IN Event([s1 EXCEPT !.pendingAtStart = {}, !.ranInFlush = {}, !.gh = GhEmpty],
           [t |-> "flushEnd", w |-> 0, v |-> 0, gh |-> s.gh])

\* after the loop
FlushEnd(s) ==
  LET s1 == ResetSchedulerState(Pop(s))
  IN CallFlushed(
       Event([s1 EXCEPT !.pendingAtStart = {}, !.ranInFlush = {}, !.gh = GhEmpty],
             [t |-> "flushEnd", w |-> 0, v |-> 0, gh |-> s.gh]),
       1)

\* flushCallbacks calls the next of its copies: flushSchedulerQueue, or a
\* user callback inside the try/catch nextTick wrapped it in
NextCopy(s) ==
  IF s.tick.copies = <<>> THEN s
  ELSE LET c == Head(s.tick.copies)
           s1 == [s EXCEPT !.tick.copies = Tail(@)]
       IN IF c.fn = "flushSchedulerQueue" THEN FlushStart(s1)
          ELSE Push(Event(s1, [t |-> "tick", w |-> 0, v |-> 0, ctx |-> c.ctx]),
                    [kind |-> "tick", cb |-> c.cb, pc |-> 1, ctx |-> c.ctx])

FlushStep(s) ==
  LET s1 == IF Top(s).pc = "after" THEN FlushAfterRun(s) ELSE s
  IN IF Top(s1).pc = "break" \/ s1.index >= Len(s1.queue)
     THEN FlushEnd(s1)
     ELSE FlushBody(s1)

\* a loop over the subscriber list itself instead of a copy of it
NotifyStep_Live(s) ==
  LET f == Top(s)
      live == s.subs[f.dep]
  IN IF f.i > Len(live) THEN Pop(s)
     ELSE WatcherUpdate(
            Event([s EXCEPT !.stack[Len(s.stack)].i = @ + 1],
                  [t |-> "update", w |-> live[f.i], v |-> 0]),
            live[f.i])

\* one iteration of the loop of Dep.notify over its copy of subs
NotifyStep(s) ==
  LET f == Top(s)
  IN IF f.i > Len(f.snap) THEN Pop(s)
     ELSE WatcherUpdate(
            Event([s EXCEPT !.stack[Len(s.stack)].i = @ + 1],
                  [t |-> "update", w |-> f.snap[f.i], v |-> 0]),
            f.snap[f.i])

(* ----------------------------- construction ----------------------------- *)

\* a constructor that takes its id from uid without incrementing it
WatcherConstructor_SameId(s, mode, getter, cb) ==
  LET r == Len(s.W) + 1
      lazy == mode = "computed"
      w == [id |-> s.uid,
            lazy |-> lazy, sync |-> mode = "watchSync",
            user |-> mode \in {"watch", "watchSync", "watchDeep"},
            deep |-> mode = "watchDeep",
            before |-> mode = "render",
            active |-> TRUE, dirty |-> lazy,
            deps |-> <<>>, depIds |-> {}, newDeps |-> <<>>, newDepIds |-> {},
            value |-> Undef, getter |-> getter, cb |-> cb,
            read |-> {}, dropped |-> {}, evals |-> 0, failed |-> FALSE,
            readLazy |-> {}, lastGet |-> Undef]
      s1 == [s EXCEPT !.vmWatchers = Append(@, r),
                      !.W = Append(@, w),
                      !.computedWatchers = IF lazy THEN r ELSE @]
      s2 == Event(s1, [t |-> "new", w |-> r, v |-> 0])
  IN IF lazy THEN s2 ELSE WatcherGet(s2, r, "ctor")

WatcherConstructor(s, mode, getter, cb) ==
  LET r == Len(s.W) + 1
      lazy == mode = "computed"
      w == [id |-> s.uid + 1,
            lazy |-> lazy, sync |-> mode = "watchSync",
            user |-> mode \in {"watch", "watchSync", "watchDeep"},
            deep |-> mode = "watchDeep",
            before |-> mode = "render",
            active |-> TRUE, dirty |-> lazy,
            deps |-> <<>>, depIds |-> {}, newDeps |-> <<>>, newDepIds |-> {},
            value |-> Undef, getter |-> getter, cb |-> cb,
            read |-> {}, dropped |-> {}, evals |-> 0, failed |-> FALSE,
            readLazy |-> {}, lastGet |-> Undef]
      s1 == [s EXCEPT !.vmWatchers = Append(@, r),
                      !.uid = @ + 1,
                      !.W = Append(@, w),
                      !.computedWatchers = IF lazy THEN r ELSE @]
      s2 == Event(s1, [t |-> "new", w |-> r, v |-> 0])
  IN IF lazy THEN s2 ELSE WatcherGet(s2, r, "ctor")

(* ------------------------------------------------------------------------ *)
(*                         the observation layer                            *)
(* ------------------------------------------------------------------------ *)
\* The heap: primitives "0", "1", "NaN", and seven objects
\*   D, E : extensible plain objects         F : a non-extensible plain object
\*   A    : an array                         U : a Vue instance (_isVue)
\*   V    : a VNode                          X : a non-plain object (a Date)
MaxLen == 2
MaxVmCount == 2
\* the depth at which the model stops following a recursion of _traverse
MaxDepth == 4
\* nextTick callbacks registered at a time, and post-flush callbacks
MaxCallbacks == 2
MaxHooks == 2
MaxTicks == 3
MaxAncestors == 2
MaxCaptured == 2
MaxVms == 2
MaxDestroyDepth == 2

Prims == {"0", "1", "NaN"}
Objects == {"D", "E", "F", "A", "U", "V", "X"}
Absent == "absent"
None == "none"
OKeys == {"p", "q"}
\* the objects whose own properties the model holds
Holders == {"D", "E", "F", "U"}

IsObject(v) == v \in Objects
IsArray(v) == v = "A"
\* Object.prototype.toString.call(v) === '[object Object]'
IsPlainObject(v) == v \in {"D", "E", "F", "U", "V"}
IsExtensible(v) == v \in Objects \ {"F"}
IsVue(v) == v = "U"
IsVNode(v) == v = "V"
IsServerRendering == FALSE
\* a value used as a condition: 0, NaN (and undefined) are falsy
Truthy(v) == v \notin {"0", "NaN", Absent, None}
\* x === y
StrictEq(x, y) == x = y /\ x # "NaN"

HeapInit ==
  [own |-> [o \in Holders |-> [k \in OKeys |-> IF k = "p" THEN "0" ELSE Absent]],
   items |-> <<>>,
   ob |-> [o \in Objects |-> [on |-> FALSE, vmCount |-> 0]],
   acc |-> [o \in Holders |-> [k \in OKeys |-> [on |-> FALSE, childOb |-> None]]],
   dsubs |-> [o \in Objects |-> [k \in OKeys \cup {"ob"} |-> {}]],
   shouldObserve |-> TRUE,
   production |-> FALSE,
   target |-> None,
   touched |-> {},
   reads |-> {},
   pending |-> FALSE,
   ret |-> None,
   op |-> <<>>,
   oev |-> <<>>,
   trav |-> <<>>,
   seen |-> {},
   get |-> None,
   got |-> None,
   value |-> None,
   desc |-> [o \in Holders |-> [k \in OKeys |-> "data"]],
   props |-> [fn |-> "none", i |-> 0, n |-> 0],
   vms |-> [v \in 1..MaxVms |->
              [created |-> FALSE, data |-> None, isBeingDestroyed |-> FALSE,
               isDestroyed |-> FALSE, watcher |-> FALSE, watchers |-> <<>>]],
   dstack |-> <<>>]

ObsEvent(h, e) == [h EXCEPT !.oev = Append(@, e)]

\* new Dep(): the Dep of property k of object o, or (k = "ob") of o's Observer
DepNew(h, o, k) ==
  ObsEvent([h EXCEPT !.dsubs[o][k] = {}], [t |-> "newDep", o |-> o, k |-> k])

\* dep.depend() under Dep.target: Watcher.addDep adds the watcher to dep.subs
ObjDepDepend(h, o, k) ==
  IF h.target = None THEN h
  ELSE [h EXCEPT !.touched = @ \cup {<<o, k>>},
                 !.dsubs[o][k] = @ \cup {h.target}]

\* dep.notify(): update() is called on every subscriber
ObjDepNotify(h, o, k) ==
  ObsEvent([h EXCEPT !.pending = @ \/ "w" \in h.dsubs[o][k]],
           [t |-> "notify", o |-> o, k |-> k, subs |-> h.dsubs[o][k]])

RECURSIVE Observe(_, _, _)

\* the descriptor the property had before defineReactive: a data property
\* ("data"), a data property with configurable: false ("fixed"), an accessor
\* with a getter only ("get") or with a getter and a setter ("getset"); own
\* holds what the getter of an accessor returns
HasGetter(h, o, k) == h.desc[o][k] \in {"get", "getset"}

HasSetter(h, o, k) == h.desc[o][k] = "getset"

\* defineReactive that does not look at property.configurable
DefineReactive_IgnoreConfigurable(h, o, k, useArg, valArg) ==
  LET h1 == DepNew(h, o, k)
      v == IF useArg THEN valArg
           ELSE IF ~HasGetter(h, o, k) \/ HasSetter(h, o, k) THEN h.own[o][k]
           ELSE None
      h2 == Observe(h1, v, FALSE)
  IN ObsEvent([h2 EXCEPT !.own[o][k] = IF HasGetter(h, o, k) THEN @ ELSE v,
                         !.acc[o][k] = [on |-> TRUE, childOb |-> h2.ret]],
              [t |-> "defineReactive", o |-> o, k |-> k])

\* defineReactive(obj, key) (useArg = FALSE) or defineReactive(obj, key, val)
DefineReactive(h, o, k, useArg, valArg) ==
  LET h1 == DepNew(h, o, k)
      v == IF useArg THEN valArg
           ELSE IF ~HasGetter(h, o, k) \/ HasSetter(h, o, k) THEN h.own[o][k]
           ELSE None
      h2 == Observe(h1, v, FALSE)
  IN IF h.desc[o][k] = "fixed" THEN h1
     ELSE ObsEvent([h2 EXCEPT !.own[o][k] = IF HasGetter(h, o, k) THEN @ ELSE v,
                              !.acc[o][k] = [on |-> TRUE, childOb |-> h2.ret]],
                   [t |-> "defineReactive", o |-> o, k |-> k])

\* Object.keys(obj)
ObjectKeys(h, o) ==
  LET ks == <<"p", "q">>
  IN SelectSeq(ks, LAMBDA k : h.own[o][k] # Absent)

RECURSIVE WalkFrom(_, _, _, _)
WalkFrom(h, o, ks, i) ==
  IF i > Len(ks) THEN h
  ELSE WalkFrom(DefineReactive(h, o, ks[i], FALSE, None), o, ks, i + 1)

Walk(h, o) == WalkFrom(h, o, ObjectKeys(h, o), 1)

RECURSIVE ObserveArrayFrom(_, _, _)
ObserveArrayFrom(h, its, i) ==
  IF i > Len(its) THEN h
  ELSE ObserveArrayFrom(Observe(h, its[i], FALSE), its, i + 1)

ObserveArray(h, its) == ObserveArrayFrom(h, its, 1)

\* new Observer(value)
ObserverConstructor(h, v) ==
  LET h1 == DepNew(ObsEvent([h EXCEPT !.ob[v] = [on |-> TRUE, vmCount |-> 0]],
                            [t |-> "newObserver", o |-> v, k |-> "ob"]),
                   v, "ob")
  IN IF IsArray(v) THEN ObserveArray(h1, h1.items) ELSE Walk(h1, v)

Observe_IgnoreSwitch(h, v, asRootData) ==
  IF ~IsObject(v) \/ IsVNode(v) THEN [h EXCEPT !.ret = None]
  ELSE LET h1 == IF h.ob[v].on THEN h
                 ELSE IF /\ ~IsServerRendering
                         /\ (IsArray(v) \/ IsPlainObject(v))
                         /\ IsExtensible(v)
                         /\ ~IsVue(v)
                      THEN ObserverConstructor(h, v)
                      ELSE h
           ob == IF h1.ob[v].on THEN v ELSE None
           h2 == IF asRootData /\ ob # None
                 THEN [h1 EXCEPT !.ob[v].vmCount = @ + 1] ELSE h1
       IN [h2 EXCEPT !.ret = ob]

Observe_NoReuse(h, v, asRootData) ==
  IF ~IsObject(v) \/ IsVNode(v) THEN [h EXCEPT !.ret = None]
  ELSE LET h1 == IF /\ h.shouldObserve
                    /\ ~IsServerRendering
                    /\ (IsArray(v) \/ IsPlainObject(v))
                    /\ IsExtensible(v)
                    /\ ~IsVue(v)
                 THEN ObserverConstructor(h, v)
                 ELSE h
           ob == IF h1.ob[v].on THEN v ELSE None
           h2 == IF asRootData /\ ob # None
                 THEN [h1 EXCEPT !.ob[v].vmCount = @ + 1] ELSE h1
       IN [h2 EXCEPT !.ret = ob]

\* observe(value, asRootData); the result is left in ret
Observe(h, v, asRootData) ==
  IF ~IsObject(v) \/ IsVNode(v) THEN [h EXCEPT !.ret = None]
  ELSE LET h1 == IF h.ob[v].on THEN h
                 ELSE IF /\ h.shouldObserve
                         /\ ~IsServerRendering
                         /\ (IsArray(v) \/ IsPlainObject(v))
                         /\ IsExtensible(v)
                         /\ ~IsVue(v)
                      THEN ObserverConstructor(h, v)
                      ELSE h
           ob == IF h1.ob[v].on THEN v ELSE None
           h2 == IF asRootData /\ ob # None
                 THEN [h1 EXCEPT !.ob[v].vmCount = @ + 1] ELSE h1
       IN [h2 EXCEPT !.ret = ob]

RECURSIVE DependArrayFrom(_, _, _)
DependArrayFrom(h, its, i) ==
  IF i > Len(its) THEN h
  ELSE LET e == its[i]
           h1 == IF Truthy(e) /\ IsObject(e) /\ h.ob[e].on
                 THEN ObjDepDepend(h, e, "ob") ELSE h
           h2 == IF IsArray(e) THEN DependArrayFrom(h1, h1.items, 1) ELSE h1
       IN DependArrayFrom(h2, its, i + 1)

DependArray(h, value) == DependArrayFrom(h, h.items, 1)

\* reactiveGetter of property k of object o; the value is left in ret
ObjReactiveGetter(h, o, k) ==
  LET value == h.own[o][k]
      childOb == h.acc[o][k].childOb
      h1 == IF h.target # None
            THEN LET d1 == ObjDepDepend(h, o, k)
                     d2 == IF childOb # None THEN ObjDepDepend(d1, childOb, "ob") ELSE d1
                 IN IF childOb # None /\ IsArray(value)
                    THEN DependArray(d2, value) ELSE d2
            ELSE h
  IN [h1 EXCEPT !.ret = value]

ObjReactiveSetter_NoNaNTest(h, o, k, newVal) ==
  LET value == h.own[o][k]
  IN IF StrictEq(newVal, value)
     THEN h
     ELSE IF HasGetter(h, o, k) /\ ~HasSetter(h, o, k) THEN h
     ELSE LET h1 == [h EXCEPT !.own[o][k] = newVal]
              h2 == Observe(h1, newVal, FALSE)
          IN ObjDepNotify([h2 EXCEPT !.acc[o][k].childOb = h2.ret], o, k)

\* reactiveSetter of property k of object o
ObjReactiveSetter(h, o, k, newVal) ==
  LET value == h.own[o][k]
  IN IF StrictEq(newVal, value) \/ (~StrictEq(newVal, newVal) /\ ~StrictEq(value, value))
     THEN h
     ELSE IF HasGetter(h, o, k) /\ ~HasSetter(h, o, k) THEN h
     ELSE LET h1 == [h EXCEPT !.own[o][k] = newVal]
              h2 == Observe(h1, newVal, FALSE)
          IN ObjDepNotify([h2 EXCEPT !.acc[o][k].childOb = h2.ret], o, k)

(* --------------------------- array mutators ---------------------------- *)
\* Array.prototype.sort() without a comparator orders by String(x):
\* "0" < "1" < "NaN" < "[object Object]"
SortKey(v) == CASE v = "0" -> 0 [] v = "1" -> 1 [] v = "NaN" -> 2 [] OTHER -> 3

RECURSIVE NativeInsert(_, _)
NativeInsert(q, x) ==
  IF q = <<>> THEN <<x>>
  ELSE IF SortKey(Last(q)) > SortKey(x)
       THEN Append(NativeInsert(ButLast(q), x), Last(q))
       ELSE Append(q, x)

RECURSIVE NativeSort(_)
NativeSort(q) ==
  IF q = <<>> THEN <<>> ELSE NativeInsert(NativeSort(ButLast(q)), Last(q))

RECURSIVE NativeReverse(_)
NativeReverse(q) ==
  IF q = <<>> THEN <<>> ELSE <<Last(q)>> \o NativeReverse(ButLast(q))

\* a call of a mutating array method: <<method, args>>; for splice the args
\* are <<start, deleteCount>> \o inserted
\* original.apply(this, args): the array afterwards
NativeItems(its, c) ==
  LET m == c[1]
      args == c[2]
  IN CASE m = "push" -> its \o args
       [] m = "pop" -> IF its = <<>> THEN its ELSE ButLast(its)
       [] m = "shift" -> IF its = <<>> THEN its ELSE Tail(its)
       [] m = "unshift" -> args \o its
       [] m = "splice" ->
            LET st == IF args[1] > Len(its) THEN Len(its) ELSE args[1]
                dc == IF args[2] > Len(its) - st THEN Len(its) - st ELSE args[2]
            IN SubSeq(its, 1, st) \o SubSeq(args, 3, Len(args))
               \o SubSeq(its, st + dc + 1, Len(its))
       [] m = "sort" -> NativeSort(its)
       [] m = "reverse" -> NativeReverse(its)

\* original.apply(this, args): the value it returns
NativeResult(its, c) ==
  LET m == c[1]
      args == c[2]
  IN CASE m \in {"push", "unshift"} -> <<"length", Len(its) + Len(args)>>
       [] m = "pop" -> <<"value", IF its = <<>> THEN Absent ELSE Last(its)>>
       [] m = "shift" -> <<"value", IF its = <<>> THEN Absent ELSE Head(its)>>
       [] m = "splice" ->
            LET st == IF args[1] > Len(its) THEN Len(its) ELSE args[1]
                dc == IF args[2] > Len(its) - st THEN Len(its) - st ELSE args[2]
            IN <<"removed", SubSeq(its, st + 1, st + dc)>>
       [] OTHER -> <<"array", "A">>

\* the elements the mutator passes to ob.observeArray
Inserted(c) ==
  CASE c[1] \in {"push", "unshift"} -> c[2]
    [] c[1] = "splice" -> SubSeq(c[2], 3, Len(c[2]))
    [] OTHER -> <<>>

Mutator_NoObserveArray(h, c) ==
  LET h1 == [h EXCEPT !.items = NativeItems(h.items, c)]
  IN [ObjDepNotify(h1, "A", "ob") EXCEPT !.ret = NativeResult(h.items, c)]

\* the function installed for each method of methodsToPatch
Mutator(h, c) ==
  LET h1 == [h EXCEPT !.items = NativeItems(h.items, c)]
      h2 == IF c[1] \in {"push", "unshift", "splice"}
            THEN ObserveArray(h1, Inserted(c)) ELSE h1
  IN [ObjDepNotify(h2, "A", "ob") EXCEPT !.ret = NativeResult(h.items, c)]

\* array[method](...args): the patched method once the array is observed
ArrayMethod(h, c) ==
  IF h.ob["A"].on THEN Mutator(h, c)
  ELSE [h EXCEPT !.items = NativeItems(h.items, c), !.ret = NativeResult(h.items, c)]

(* ------------------------------ set and del ----------------------------- *)
\* obj[key] = val on an own property: through its setter when it has one
PutValue(h, o, k, v) ==
  IF h.acc[o][k].on THEN ObjReactiveSetter(h, o, k, v)
  ELSE IF HasGetter(h, o, k) /\ ~HasSetter(h, o, k) THEN h
  ELSE [h EXCEPT !.own[o][k] = v]

Warn(h, what) ==
  IF h.production THEN h ELSE ObsEvent(h, [t |-> "warn", o |-> what, k |-> "-"])

VueSet_NoNotify(h, target, key, newVal) ==
  IF IsArray(target)
  THEN [ArrayMethod(h, <<"splice", <<key, 1, newVal>>>>) EXCEPT !.ret = newVal]
  ELSE IF h.own[target][key] # Absent
  THEN [PutValue(h, target, key, newVal) EXCEPT !.ret = newVal]
  ELSE IF IsVue(target) \/ (h.ob[target].on /\ h.ob[target].vmCount > 0)
  THEN [Warn(h, "set") EXCEPT !.ret = newVal]
  ELSE IF ~h.ob[target].on
  THEN [h EXCEPT !.own[target][key] = newVal, !.ret = newVal]
  ELSE [DefineReactive(h, target, key, TRUE, newVal) EXCEPT !.ret = newVal]

\* set(target, key, newVal); for the array the key is an index
VueSet(h, target, key, newVal) ==
  IF IsArray(target)
  THEN [ArrayMethod(h, <<"splice", <<key, 1, newVal>>>>) EXCEPT !.ret = newVal]
  ELSE IF h.own[target][key] # Absent
  THEN [PutValue(h, target, key, newVal) EXCEPT !.ret = newVal]
  ELSE IF IsVue(target) \/ (h.ob[target].on /\ h.ob[target].vmCount > 0)
  THEN [Warn(h, "set") EXCEPT !.ret = newVal]
  ELSE IF ~h.ob[target].on
  THEN [h EXCEPT !.own[target][key] = newVal, !.ret = newVal]
  ELSE [ObjDepNotify(DefineReactive(h, target, key, TRUE, newVal), target, "ob")
          EXCEPT !.ret = newVal]

VueDel_NoProtection(h, target, key) ==
  IF IsArray(target)
  THEN [ArrayMethod(h, <<"splice", <<key, 1>>>>) EXCEPT !.ret = None]
  ELSE IF h.own[target][key] = Absent
  THEN h
  ELSE LET h1 == [h EXCEPT !.own[target][key] = Absent,
                           !.acc[target][key] = [on |-> FALSE, childOb |-> None],
                           !.dsubs[target][key] = {}]
       IN IF ~h.ob[target].on THEN h1 ELSE ObjDepNotify(h1, target, "ob")

\* del(target, key); for the array the key is an index
VueDel(h, target, key) ==
  IF IsArray(target)
  THEN [ArrayMethod(h, <<"splice", <<key, 1>>>>) EXCEPT !.ret = None]
  ELSE IF IsVue(target) \/ (h.ob[target].on /\ h.ob[target].vmCount > 0)
  THEN Warn(h, "del")
  ELSE IF h.own[target][key] = Absent
  THEN h
  ELSE LET h1 == [h EXCEPT !.own[target][key] = Absent,
                           !.acc[target][key] = [on |-> FALSE, childOb |-> None],
                           !.dsubs[target][key] = {}]
       IN IF ~h.ob[target].on THEN h1 ELSE ObjDepNotify(h1, target, "ob")

(* -------------------------------- actions ------------------------------- *)
\* a component without parent, and no config.errorHandler
AppInit == [ancestors |-> 0, hooks |-> 0, handler |-> FALSE]

\* no code is running: the call stack is empty and flushCallbacks is not
\* between two of its callbacks
Quiescent == stack = <<>> /\ tick.copies = <<>>

InitWatchers ==
  /\ val = [k \in Keys |-> 0]
  /\ subs = [k \in Keys |-> <<>>]
  /\ W = <<>> /\ uid = 0 /\ vmWatchers = <<>> /\ computedWatchers = 0
  /\ targetStack = <<>> /\ stack = <<>> /\ exc = FALSE
  /\ queue = <<>> /\ has = {} /\ waiting = FALSE /\ flushing = FALSE
  /\ index = 0 /\ circular = <<>>
  /\ pendingAtStart = {} /\ ranInFlush = {}
  /\ gh = GhEmpty
  /\ ev = <<>>
  /\ tick = [callbacks |-> <<>>, pending |-> FALSE, timers |-> 0, copies |-> <<>>,
             count |-> 0]
  /\ flushed = <<>>
  /\ app = AppInit

Init == InitWatchers /\ heap = HeapInit

\* initComputed: the lazy watcher of the computed property c
InitComputed(getter) ==
  /\ Quiescent /\ Len(W) < MaxWatchers /\ computedWatchers = 0
  /\ Apply(WatcherConstructor(Cur, "computed", getter, CbNoop))

\* mountComponent: the render watcher
MountComponent(getter) ==
  /\ Quiescent /\ Len(W) < MaxWatchers
  /\ Apply(WatcherConstructor(Cur, "render", getter, CbNoop))

\* vm.$watch(getter, cb, {sync})
Watch(sync, getter, cb) ==
  /\ Quiescent /\ Len(W) < MaxWatchers
  /\ Apply(WatcherConstructor(Cur, IF sync THEN "watchSync" ELSE "watch", getter, cb))

\* vm.$watch(getter, cb, {deep: true})
WatchDeep(getter, cb) ==
  /\ Quiescent /\ Len(W) < MaxWatchers
  /\ Apply(WatcherConstructor(Cur, "watchDeep", getter, cb))

\* O.k = v outside any computation
SetProp(k, v) ==
  /\ Quiescent
  /\ Apply(ReactiveSetter(Cur, k, v))

\* vm.c outside any computation
ReadComputed ==
  /\ Quiescent
  /\ Apply(ComputedGetter(Cur))

\* watcher.teardown() outside any computation
Teardown(r) ==
  /\ Quiescent
  /\ Apply(WatcherTeardown(Cur, r))

\* the task scheduled by timerFunc runs flushCallbacks, which calls the
\* first of the registered callbacks: flushSchedulerQueue, unless user code
\* called nextTick before the first invalidation of the turn
FlushSchedulerQueue ==
  /\ Quiescent /\ tick.timers > 0
  /\ Apply(NextCopy(FlushCallbacks(Cur)))

\* vm.$nextTick(cb) outside any computation
NextTickCall(cb) ==
  /\ Quiescent /\ Len(tick.callbacks) < MaxCallbacks
  /\ Apply(NextTick(Cur, UserCb(cb)))

\* nextTick(cb, ctx) outside any computation
NextTickCtxCall(cb) ==
  /\ Quiescent /\ tick.count < MaxTicks
  /\ Apply(NextTickCtx(Cur, cb))

\* a callback of flushCallbacks has returned: the loop calls the next one
TickStep ==
  /\ ~exc
  /\ \/ stack = <<>> /\ tick.copies # <<>>
     \/ UserFrame(Cur) /\ Top(Cur).kind = "tick" /\ ~HasOp(Cur)
  /\ Apply(NextCopy(IF stack = <<>> THEN Cur ELSE Pop(Cur)))

\* a collaborator registers the post-flush callback h
RegisterFlushed(h) ==
  /\ Quiescent /\ h \notin Range(flushed)
  /\ Apply([Cur EXCEPT !.flushed = Append(@, h)])

Acc(s) == IF Top(s).kind = "get" THEN Top(s).acc ELSE 0

OpRead ==
  /\ HasOp(Cur) /\ CurOp(Cur).op = "read"
  /\ Apply(IF Cond(CurOp(Cur).c, Acc(Cur)) THEN ReactiveGetter(Cur, CurOp(Cur).k)
           ELSE Advance(Cur))

OpComp ==
  /\ HasOp(Cur) /\ CurOp(Cur).op = "comp"
  /\ Apply(ComputedGetter(Cur))

OpWrite ==
  /\ HasOp(Cur) /\ CurOp(Cur).op = "write"
  /\ Apply(ReactiveSetter(Advance(Cur), CurOp(Cur).k, WriteValue(Cur, CurOp(Cur))))

OpTeardown ==
  /\ HasOp(Cur) /\ CurOp(Cur).op = "td"
  /\ Apply(IF TdTarget(Cur, CurOp(Cur)) \in Refs /\ Cond(CurOp(Cur).c, Acc(Cur))
           THEN WatcherTeardown(Advance(Cur), TdTarget(Cur, CurOp(Cur)))
           ELSE Advance(Cur))

OpObj ==
  /\ HasOp(Cur) /\ CurOp(Cur).op = "obj"
  /\ Apply([Advance(Cur) EXCEPT !.stack[Len(stack)].acc = ObjRef])

\* the running code calls nextTick with a callback that does nothing
OpNextTick ==
  /\ HasOp(Cur) /\ CurOp(Cur).op = "nt"
  /\ Apply(IF tick.count < MaxTicks THEN NextTickCtx(Advance(Cur), CbNoop)
           ELSE Advance(Cur))

\* the expression calls callHook(vm, hook)
OpCallHook ==
  /\ HasOp(Cur) /\ CurOp(Cur).op = "hook"
  /\ Apply(CallHook(Advance(Cur), CurOp(Cur).v))

\* the expression calls getData(data, vm)
OpGetData ==
  /\ HasOp(Cur) /\ CurOp(Cur).op = "data"
  /\ \E b \in HookCodes : Apply(GetData(Advance(Cur), b))

\* handleError goes on to the next call of user code, or returns
HandleErrorRun ==
  /\ ~exc /\ stack # <<>> /\ Top(Cur).kind = "handleError"
  /\ \E b \in HookCodes : Apply(HandleErrorStep(Cur, b))

\* callHook calls the next handler, or returns
CallHookRun ==
  /\ ~exc /\ stack # <<>> /\ Top(Cur).kind = "callHook"
  /\ \E b \in HookCodes : Apply(CallHookStep(Cur, b))

\* getData returns
GetDataReturn ==
  /\ ~exc /\ stack # <<>> /\ Top(Cur).kind = "getData"
  /\ Apply(GetDataEnd(Cur))

\* an errorCaptured hook, errorHandler, a lifecycle handler or data() returns
HookCodeReturn ==
  /\ ~exc /\ UserFrame(Cur) /\ Top(Cur).kind \in HookKinds /\ ~HasOp(Cur)
  /\ Apply(CASE Top(Cur).kind = "hook" -> HookReturn(Cur)
             [] Top(Cur).kind = "errorHandler" -> HandleErrorNext(Pop(Cur))
             [] OTHER -> Pop(Cur))

\* the component is mounted under n ancestors with h errorCaptured hooks
\* each, and config.errorHandler is set or not
Configure(n, h, e) ==
  /\ Quiescent /\ app = AppInit /\ W = <<>>
  /\ [ancestors |-> n, hooks |-> h, handler |-> e] # AppInit
  /\ Apply([Cur EXCEPT !.app = [ancestors |-> n, hooks |-> h, handler |-> e]])

OpThrow ==
  /\ HasOp(Cur) /\ CurOp(Cur).op = "throw"
  /\ Apply(IF Cond(CurOp(Cur).c, Acc(Cur)) THEN [Cur EXCEPT !.exc = TRUE]
           ELSE Advance(Cur))

GetReturn ==
  /\ ~exc /\ UserFrame(Cur) /\ Top(Cur).kind = "get" /\ ~HasOp(Cur)
  /\ Apply(WatcherGetReturn(Cur))

CbReturn ==
  /\ ~exc /\ UserFrame(Cur) /\ Top(Cur).kind = "cb" /\ ~HasOp(Cur)
  /\ Apply(Pop(Cur))

Notify ==
  /\ ~exc /\ stack # <<>> /\ Top(Cur).kind = "notify"
  /\ Apply(NotifyStep(Cur))

Flush ==
  /\ ~exc /\ stack # <<>> /\ Top(Cur).kind = "flush"
  /\ Apply(FlushStep(Cur))

Propagate ==
  /\ exc /\ stack # <<>>
  /\ Apply(Unwind(Cur))

Next ==
  \/ \E g \in LazyGetters : InitComputed(g)
  \/ \E g \in RenderGetters : MountComponent(g)
  \/ \E c \in WatchCalls : Watch(c[1], c[2], c[3])
  \/ \E k \in Keys, v \in Vals : SetProp(k, v)
  \/ ReadComputed
  \/ \E r \in Refs : Teardown(r)
  \/ FlushSchedulerQueue
  \/ OpRead \/ OpComp \/ OpWrite \/ OpTeardown \/ OpThrow
  \/ GetReturn \/ CbReturn \/ Notify \/ Flush \/ Propagate

Spec == Init /\ [][Next]_vars

\* the flush of watchers whose callbacks write to reactive properties; the
\* engine runs the code on the call stack to completion
RunningStep ==
  \/ OpRead \/ OpObj \/ OpWrite \/ OpThrow
  \/ GetReturn \/ CbReturn \/ Notify \/ Flush \/ Propagate

NextFlush ==
  \/ \E c \in FlushCalls : Watch(c[1], c[2], c[3])
  \/ \E k \in Keys, v \in Vals : SetProp(k, v)
  \/ FlushSchedulerQueue
  \/ OpRead \/ OpWrite \/ GetReturn \/ CbReturn \/ Notify \/ Flush

SpecFlush == Init /\ [][NextFlush]_vars /\ WF_vars(RunningStep)

\* run() of user watchers: plain, sync and deep ones, on expressions that
\* yield a primitive, an object, or throw; next to them a computed property
\* whose getter may throw
NextRun ==
  \/ InitComputed(ExprThrow)
  \/ ReadComputed
  \/ \E c \in RunCalls : Watch(c[1], c[2], c[3])
  \/ \E c \in DeepCalls : WatchDeep(c[1], c[2])
  \/ \E k \in Keys, v \in Vals : SetProp(k, v)
  \/ FlushSchedulerQueue
  \/ OpRead \/ OpObj \/ OpWrite \/ OpThrow
  \/ GetReturn \/ CbReturn \/ Notify \/ Flush \/ Propagate

SpecRun == Init /\ [][NextRun]_vars

\* flushes of user watchers whose expression or callback may throw; the
\* engine runs the code on the call stack to completion
NextErr ==
  \/ \E c \in {<<ExprThrow, CbNoop>>, <<ExprCond, CbThrow>>, <<ExprCond, CbWrite>>} :
       Watch(FALSE, c[1], c[2])
  \/ \E k \in Keys, v \in Vals : SetProp(k, v)
  \/ FlushSchedulerQueue
  \/ OpRead \/ OpWrite \/ OpThrow
  \/ GetReturn \/ CbReturn \/ Notify \/ Flush \/ Propagate

SpecErr == Init /\ [][NextErr]_vars /\ WF_vars(RunningStep)

\* turns of the event loop: nextTick callbacks that write to the data,
\* watchers whose callbacks do, and post-flush callbacks
NextTurn ==
  \/ \E cb \in {CbNoop, CbWrite} : Watch(FALSE, ExprCond, cb)
  \/ \E k \in Keys, v \in Vals : SetProp(k, v)
  \/ \E cb \in {CbNoop, CbWrite, CbInc} : NextTickCall(cb)
  \/ \E h \in 1..MaxHooks : RegisterFlushed(h)
  \/ FlushSchedulerQueue
  \/ TickStep
  \/ OpRead \/ OpWrite \/ GetReturn \/ CbReturn \/ Notify \/ Flush

SpecTurn == Init /\ [][NextTurn]_vars

\* errors of user watchers under errorCaptured hooks and errorHandler, and
\* expressions that call lifecycle hooks and data functions
NextHooks ==
  \/ \E n \in 0..MaxAncestors, h \in 0..MaxCaptured, e \in BOOLEAN : Configure(n, h, e)
  \/ \E g \in {ExprThrow, ExprHook, ExprData} : Watch(FALSE, g, CbNoop)
  \/ \E v \in Vals : SetProp("a", v)
  \/ FlushSchedulerQueue
  \/ OpRead \/ OpThrow \/ OpCallHook \/ OpGetData
  \/ HandleErrorRun \/ CallHookRun \/ GetDataReturn \/ HookCodeReturn
  \/ GetReturn \/ Notify \/ Flush \/ Propagate

SpecHooks == Init /\ [][NextHooks]_vars

\* nextTick callbacks that return, throw, or register another callback;
\* the timer fires and the engine runs the code on the call stack to completion
TickRunning == TickStep \/ OpNextTick \/ OpThrow \/ Propagate

NextTicks ==
  \/ \E cb \in {CbNoop, CbThrow, CbTick} : NextTickCtxCall(cb)
  \/ FlushSchedulerQueue
  \/ TickStep \/ OpNextTick \/ OpThrow \/ Propagate

SpecTick ==
  Init /\ [][NextTicks]_vars /\ WF_vars(FlushSchedulerQueue) /\ WF_vars(TickRunning)

(* ------------------- actions of the observation layer ------------------- *)
\* the calls of mutating array methods made on an array holding its
ArrayCalls(its) ==
  {<<m, <<>>>> : m \in {"pop", "shift", "sort", "reverse"}}
  \cup (IF Len(its) < MaxLen
        THEN {<<m, <<v>>>> : m \in {"push", "unshift"}, v \in {"0", "E", "F"}}
        ELSE {})
  \cup {<<"splice", <<i, 1>>>> : i \in 0..Len(its)}
  \cup {<<"splice", <<x[1], x[2], x[3]>>>> :
          x \in {y \in (0..Len(its)) \X {0, 1} \X {"E"} :
                   Len(its) + 1 - (IF y[1] + y[2] > Len(its) THEN 0 ELSE y[2])
                     <= MaxLen}}

\* a call from the application starts: the record of the last call is dropped
Begin(name, o, k) ==
  [heap EXCEPT !.op = <<name, o, k>>, !.oev = <<>>, !.ret = None, !.target = None]

ApplyObs(h) == heap' = h /\ UNCHANGED watcherVars

\* observe(v, asRootData)
ObserveCall(v, asRootData) ==
  /\ asRootData /\ IsObject(v) => heap.ob[v].vmCount < MaxVmCount
  /\ ApplyObs(Observe(Begin("observe", v, asRootData), v, asRootData))

\* toggleObserving(b)
ToggleObserving(b) ==
  /\ heap.shouldObserve # b
  /\ ApplyObs([Begin("toggleObserving", b, None) EXCEPT !.shouldObserve = b])

\* o.k = v on an own property
Assign(o, k, v) ==
  /\ heap.own[o][k] # Absent
  /\ ApplyObs(PutValue(Begin("assign", o, k), o, k, v))

\* Object.defineProperty(o, k, descriptor) on a property of a plain object
\* that has not been observed
DefineProperty(o, k, d) ==
  /\ heap.own[o][k] # Absent /\ ~heap.ob[o].on /\ ~heap.acc[o][k].on
  /\ heap.desc[o][k] = "data"
  /\ ApplyObs([Begin("defineProperty", o, k) EXCEPT !.desc[o][k] = d])

\* Vue.set(o, k, v)
SetCall(o, k, v) ==
  /\ IsArray(o) => k <= Len(heap.items) /\ (k = Len(heap.items) => k < MaxLen)
  /\ ApplyObs(VueSet(Begin("set", o, k), o, k, v))

\* Vue.delete(o, k)
DelCall(o, k) ==
  /\ IsArray(o) => k <= Len(heap.items)
  /\ ApplyObs(VueDel(Begin("del", o, k), o, k))

\* A[method](...args)
ArrayCall(c) ==
  /\ Len(NativeItems(heap.items, c)) <= MaxLen
  /\ ApplyObs(ArrayMethod(Begin(c[1], "A", Len(c[2])), c))

\* a read of o.k by the expression of the watcher
ReadProp(h, o, k) ==
  LET h1 == [h EXCEPT !.reads = @ \cup {<<o, k>>}]
  IN IF h.own[o][k] = Absent THEN [h1 EXCEPT !.ret = Absent]
     ELSE IF h.acc[o][k].on THEN ObjReactiveGetter(h1, o, k)
     ELSE [h1 EXCEPT !.ret = h.own[o][k]]

RECURSIVE ReadItemsFrom(_, _, _)
ReadItemsFrom(h, its, i) ==
  IF i > Len(its) THEN h
  ELSE ReadItemsFrom(IF its[i] \in Holders THEN ReadProp(h, its[i], "p") ELSE h,
                     its, i + 1)

\* the expressions of the watcher: "shallow" is D.p; "deep" is D.p.p when
\* D.p is an object and D.p.map(e => e.p) when it is the array
ExprValue(h, e) ==
  LET h1 == ReadProp(h, "D", "p")
      v == h1.ret
  IN IF e = "shallow" THEN h1
     ELSE IF IsArray(v) THEN ReadItemsFrom(h1, h1.items, 1)
     ELSE IF v \in Holders THEN ReadProp(h1, v, "p")
     ELSE h1

\* Watcher.get() of the watcher "w": pushTarget, the getter, popTarget and
\* cleanupDeps, which removes it from the subs of every Dep not touched
WatcherEvaluate(h, e) ==
  LET h1 == ExprValue([h EXCEPT !.target = "w", !.touched = {}, !.reads = {}], e)
  IN [h1 EXCEPT !.target = None, !.pending = FALSE,
                !.dsubs = [o \in Objects |-> [k \in OKeys \cup {"ob"} |->
                             IF <<o, k>> \in h1.touched THEN h1.dsubs[o][k]
                             ELSE h1.dsubs[o][k] \ {"w"}]]]

Evaluate(e) ==
  /\ heap.target = None
  /\ ApplyObs(WatcherEvaluate(Begin("evaluate", "w", e), e))

\* observation of values: observe, toggleObserving, writes to reactive
\* properties and the evaluation of a watcher
NextObs ==
  \/ \E v \in Prims \cup Objects : ObserveCall(v, FALSE)
  \/ ObserveCall("E", TRUE)
  \/ \E b \in BOOLEAN : ToggleObserving(b)
  \/ \E v \in {"0", "1", "NaN", "E"} : Assign("D", "p", v)
  \/ \E v \in {"0", "1"} : Assign("E", "p", v)
  \/ Evaluate("deep")

SpecObs == Init /\ [][NextObs]_vars

\* arrays: D.p holds the array A, whose elements are 0, E and F
NextArr ==
  \/ ObserveCall("D", FALSE)
  \/ \E b \in BOOLEAN : ToggleObserving(b)
  \/ \E v \in {"0", "A"} : Assign("D", "p", v)
  \/ \E v \in {"0", "1"} : Assign("E", "p", v)
  \/ \E c \in ArrayCalls(heap.items) : ArrayCall(c)
  \/ \E k \in 0..MaxLen : SetCall("A", k, "E")
  \/ \E k \in 0..MaxLen : DelCall("A", k)
  \/ Evaluate("deep")

SpecArr == Init /\ [][NextArr]_vars

\* set and del, in a development and in a production build
InitSet ==
  /\ InitWatchers
  /\ \E b \in BOOLEAN : heap = [HeapInit EXCEPT !.production = b]

NextSet ==
  \/ ObserveCall("D", FALSE)
  \/ \E r \in BOOLEAN : ObserveCall("E", r)
  \/ \E v \in {"0", "E"} : Assign("D", "p", v)
  \/ \E o \in {"E", "U"}, k \in OKeys : SetCall(o, k, "1")
  \/ \E o \in {"E", "U"}, k \in OKeys : DelCall(o, k)
  \/ Evaluate("deep")

SpecSet == InitSet /\ [][NextSet]_vars

\* properties that had a descriptor of their own before the observation
NextDesc ==
  \/ \E o \in {"D", "E"}, d \in {"fixed", "get", "getset"} : DefineProperty(o, "p", d)
  \/ \E v \in {"D", "E"} : ObserveCall(v, FALSE)
  \/ \E v \in {"0", "1", "E"} : Assign("D", "p", v)
  \/ \E v \in {"0", "1"} : Assign("E", "p", v)
  \/ Evaluate("deep")

SpecDesc == Init /\ [][NextDesc]_vars

(* ------------------------------ instances ------------------------------- *)
\* new Vue({data}) with nw user watchers: initData ends with
\* observe(data, true); the render watcher and the watchers are active
NewVue(h, v, data, nw) ==
  LET h1 == Observe(h, data, TRUE)
  IN [h1 EXCEPT !.vms[v] = [created |-> TRUE, data |-> data,
                            isBeingDestroyed |-> FALSE, isDestroyed |-> FALSE,
                            watcher |-> TRUE, watchers |-> [i \in 1..nw |-> TRUE]]]

\* vm.$destroy() up to callHook(vm, 'beforeDestroy')
Destroy(h, v) ==
  IF h.vms[v].isBeingDestroyed THEN h
  ELSE [h EXCEPT !.dstack = Append(@, [vm |-> v, pc |-> "beforeDestroy"])]

\* $destroy between its two hooks: the flag, teardown() of the render
\* watcher and of every watcher of vm._watchers, and the count of the data
DestroyBody(h) ==
  LET n == Len(h.dstack)
      v == h.dstack[n].vm
      data == h.vms[v].data
      h1 == [h EXCEPT !.vms[v].isBeingDestroyed = TRUE,
                      !.vms[v].watcher = FALSE,
                      !.vms[v].watchers = [i \in DOMAIN @ |-> FALSE]]
      h2 == IF h1.ob[data].on THEN [h1 EXCEPT !.ob[data].vmCount = @ - 1] ELSE h1
  IN ObsEvent([h2 EXCEPT !.vms[v].isDestroyed = TRUE, !.dstack[n].pc = "destroyed"],
              [t |-> "destroy", o |-> v, k |-> data])

\* the hook $destroy has called returns: after beforeDestroy the body runs,
\* after destroyed $destroy returns
DestroyHookReturn(h) ==
  IF Last(h.dstack).pc = "beforeDestroy" THEN DestroyBody(h)
  ELSE [h EXCEPT !.dstack = ButLast(@)]

\* a component with the data object `data` is created
NewVueCall(v, data, nw) ==
  /\ heap.dstack = <<>> /\ ~heap.vms[v].created
  /\ heap.ob[data].vmCount < MaxVmCount
  /\ ApplyObs(NewVue(Begin("newVue", v, data), v, data, nw))

\* vm.$destroy() called by the application
DestroyCall(v) ==
  /\ heap.dstack = <<>> /\ heap.vms[v].created
  /\ ApplyObs(Destroy(Begin("destroy", v, None), v))

\* the beforeDestroy or destroyed hook running calls this.$destroy()
DestroyFromHook ==
  /\ heap.dstack # <<>> /\ Len(heap.dstack) < MaxDestroyDepth
  /\ ApplyObs(Destroy(Begin("destroyFromHook", Last(heap.dstack).vm, None),
                      Last(heap.dstack).vm))

\* the hook returns
DestroyRun ==
  /\ heap.dstack # <<>>
  /\ ApplyObs(DestroyHookReturn(Begin("destroyRun", Last(heap.dstack).vm, None)))

NextDestroy ==
  \/ \E v \in 1..MaxVms, data \in {"D", "E"}, nw \in 0..1 : NewVueCall(v, data, nw)
  \/ \E v \in 1..MaxVms : DestroyCall(v)
  \/ DestroyFromHook
  \/ DestroyRun
  \/ \E v \in {"0", "1"} : Assign("E", "p", v)

SpecDestroy == Init /\ [][NextDestroy]_vars

(* ------------------------------- props ---------------------------------- *)
\* the result of a call that threw
Thrown == "throw"

\* the keys of the props options, in the order of the for-in loop
PropKeys == <<"p", "q">>

\* one prop as the options and the parent describe it: the value passed
\* ("absent": none), what the default yields (a primitive, the object a
\* factory returns, or a factory that throws) and what the validator does
PropInputs ==
  [value : {"absent", "0", "E"}, def : {"0", "E", Thrown},
   validator : {"ok", Thrown}]

\* validateProp(key, propOptions, propsData, vm); the value is left in ret
ValidateProp(h, p) ==
  LET h1 == IF p.value # "absent" THEN [h EXCEPT !.ret = p.value]
            ELSE IF p.def = Thrown THEN [h EXCEPT !.ret = Thrown]
            ELSE LET prevShouldObserve == h.shouldObserve
                     h2 == Observe([h EXCEPT !.shouldObserve = TRUE], p.def, FALSE)
                 IN [h2 EXCEPT !.shouldObserve = prevShouldObserve, !.ret = p.def]
  IN IF h1.ret # Thrown /\ ~h.production /\ p.validator = Thrown
     THEN [h1 EXCEPT !.ret = Thrown]
     ELSE h1

\* no call of initProps or updateChildComponent is in progress
NoProps == [fn |-> "none", i |-> 0, n |-> 0]

\* initProps(vm, propsOptions) up to the loop, for n props: vm._props = {},
\* and toggleObserving(false) unless the instance is the root
InitProps(h, isRoot, n) ==
  [h EXCEPT !.own["D"] = [k \in OKeys |-> Absent],
            !.acc["D"] = [k \in OKeys |-> [on |-> FALSE, childOb |-> None]],
            !.dsubs["D"] = [k \in OKeys \cup {"ob"} |-> {}],
            !.shouldObserve = IF isRoot THEN @ ELSE FALSE,
            !.props = [fn |-> "initProps", i |-> 1, n |-> n]]

\* updateChildComponent up to the loop over vm.$options._propKeys
UpdateChildComponent(h) ==
  [h EXCEPT !.shouldObserve = FALSE,
            !.props = [fn |-> "updateChildComponent", i |-> 1,
                       n |-> Cardinality({k \in OKeys : h.own["D"][k] # Absent})]]

\* one turn of the loop, for the prop described by p, or after the last
\* prop toggleObserving(true) and the return; an exception of validateProp
\* leaves the function at once
PropsStep(h, p) ==
  LET key == PropKeys[h.props.i]
      h1 == ValidateProp(h, p)
  IN IF h.props.i > h.props.n
     THEN [h EXCEPT !.shouldObserve = TRUE, !.props = NoProps]
     ELSE IF h1.ret = Thrown
     THEN ObsEvent([h1 EXCEPT !.props = NoProps], [t |-> "throw", o |-> "D", k |-> key])
     ELSE [(IF h.props.fn = "initProps"
            THEN DefineReactive(h1, "D", key, TRUE, h1.ret)
            ELSE PutValue(h1, "D", key, h1.ret))
           EXCEPT !.props.i = @ + 1]

\* a child (isRoot = FALSE) or root instance with n props is created
InitPropsCall(isRoot, n) ==
  /\ heap.props = NoProps
  /\ ApplyObs(InitProps(Begin("initProps", isRoot, n), isRoot, n))

\* the parent re-renders and passes props to the child
UpdateChildComponentCall ==
  /\ heap.props = NoProps /\ heap.acc["D"]["p"].on
  /\ ApplyObs(UpdateChildComponent(Begin("updateChildComponent", None, None)))

\* the loop of initProps or updateChildComponent goes on
PropsRun ==
  /\ heap.props # NoProps
  /\ \E p \in PropInputs :
       ApplyObs(PropsStep(Begin("propsLoop", heap.props.fn, heap.props.i), p))

NextProps ==
  \/ \E isRoot \in BOOLEAN, n \in 1..2 : InitPropsCall(isRoot, n)
  \/ UpdateChildComponentCall
  \/ PropsRun
  \/ \E v \in {"0", "1"} : Assign("E", "p", v)
  \/ Evaluate("deep")

SpecProps == Init /\ [][NextProps]_vars

(* ------------------------------- traverse ------------------------------- *)
\* _traverse(val, seen) up to its loop: the call returns at once for a value
\* that is not an object, for a frozen object (the heap has none) and for a
\* VNode, and for an observed object whose dep id is in seen; otherwise its
\* frame, with the number of elements or keys still to visit, is pushed
TraverseEnter(h, v) ==
  IF ~IsObject(v) \/ IsVNode(v) THEN h
  ELSE IF h.ob[v].on /\ v \in h.seen THEN h
  ELSE [h EXCEPT
          !.seen = IF h.ob[v].on THEN @ \cup {v} ELSE @,
          !.trav = Append(@, [o |-> v,
                              i |-> IF IsArray(v) THEN Len(h.items)
                                    ELSE IF v \in Holders THEN Len(ObjectKeys(h, v))
                                    ELSE 0])]

\* the loop of the call of _traverse on top: while (i--) _traverse(val[i]);
\* when the first call returns, traverse() clears seenObjects
TraverseStep(h) ==
  LET f == Last(h.trav)
  IN IF f.i = 0
     THEN [h EXCEPT !.trav = ButLast(@),
                    !.seen = IF Len(h.trav) = 1 THEN {} ELSE @]
     ELSE LET h1 == [h EXCEPT !.trav[Len(h.trav)].i = f.i - 1]
              h2 == IF IsArray(f.o) THEN [h1 EXCEPT !.ret = h.items[f.i]]
                    ELSE ReadProp(h1, f.o, ObjectKeys(h, f.o)[f.i])
          IN TraverseEnter(h2, h2.ret)

\* traverse(v)
TraverseCall(v) ==
  /\ heap.trav = <<>>
  /\ ApplyObs(TraverseEnter(Begin("traverse", v, None), v))

\* get() of the deep watcher "w" after traverse(value) has returned:
\* popTarget and cleanupDeps; the constructor stores the value, run() stores
\* it and invokes the callback if value !== this.value || isObject(value) ||
\* this.deep
DeepGetEnd(h) ==
  IF h.trav # <<>> \/ h.get = None THEN h
  ELSE LET h1 == [h EXCEPT
                    !.target = None, !.get = None, !.got = None, !.value = h.got,
                    !.dsubs = [o \in Objects |-> [k \in OKeys \cup {"ob"} |->
                                 IF <<o, k>> \in h.touched THEN h.dsubs[o][k]
                                 ELSE h.dsubs[o][k] \ {"w"}]]]
       IN IF h.get = "run"
          THEN ObsEvent(h1, [t |-> "cb", o |-> h.got, k |-> h.value])
          ELSE h1

\* get() that does not call traverse(value)
DeepGet_NoTraverse(h, caller) ==
  LET h1 == ExprValue([h EXCEPT !.target = "w", !.touched = {}, !.reads = {},
                                !.pending = FALSE, !.get = caller], "shallow")
  IN DeepGetEnd([h1 EXCEPT !.got = h1.ret])

\* get() of the deep watcher "w", whose expression is D.p, up to the first
\* call of _traverse
DeepGet(h, caller) ==
  LET h1 == ExprValue([h EXCEPT !.target = "w", !.touched = {}, !.reads = {},
                                !.pending = FALSE, !.get = caller], "shallow")
  IN DeepGetEnd(TraverseEnter([h1 EXCEPT !.got = h1.ret], h1.ret))

\* vm.$watch('D.p', cb, {deep: true}): the constructor calls get()
WatchDeepCall ==
  /\ heap.trav = <<>> /\ heap.get = None
  /\ "w" \notin UNION {heap.dsubs[o][k] : o \in Objects, k \in OKeys \cup {"ob"}}
  /\ ApplyObs(DeepGet(Begin("watch", "w", "deep"), "new"))

\* the scheduler calls run() on the invalidated deep watcher
RunDeep ==
  /\ heap.trav = <<>> /\ heap.get = None /\ heap.pending
  /\ ApplyObs(DeepGet(Begin("run", "w", "deep"), "run"))

\* the traversal on the stack goes on
TraverseRun ==
  /\ heap.trav # <<>> /\ Len(heap.trav) <= MaxDepth
  /\ ApplyObs(DeepGetEnd(TraverseStep(heap)))

\* traverse over graphs of observed and unobserved objects, some of them
\* cyclic: D.p, E.p and F.p may hold objects, and the array holds 0, E and F
NextTrav ==
  \/ /\ heap.trav = <<>>
     /\ \/ \E v \in {"D", "E", "F", "A"} : ObserveCall(v, FALSE)
        \/ \E v \in {"0", "E", "D", "A"} : Assign("D", "p", v)
        \/ \E v \in {"0", "D"} : Assign("E", "p", v)
        \/ \E v \in {"0", "F"} : Assign("F", "p", v)
        \/ \E v \in {"E", "F"} : ArrayCall(<<"push", <<v>>>>)
        \/ ArrayCall(<<"pop", <<>>>>)
  \/ \E v \in {"0", "D", "F", "A", "V"} : TraverseCall(v)
  \/ TraverseRun

SpecTrav == Init /\ [][NextTrav]_vars

\* a deep watcher on D.p over graphs of observed objects and the array
NextDeep ==
  \/ /\ heap.trav = <<>>
     /\ \/ \E v \in {"D", "E"} : ObserveCall(v, FALSE)
        \/ \E v \in {"0", "E", "A", "F"} : Assign("D", "p", v)
        \/ \E v \in {"0", "1", "D", "V"} : Assign("E", "p", v)
        \/ SetCall("E", "q", "1")
        \/ \E v \in {"E", "F"} : ArrayCall(<<"push", <<v>>>>)
        \/ ArrayCall(<<"pop", <<>>>>)
  \/ WatchDeepCall
  \/ RunDeep
  \/ TraverseRun

SpecDeep == Init /\ [][NextDeep]_vars

(* ------------------------------------------------------------------------ *)
(*                               the claims                                 *)
(* ------------------------------------------------------------------------ *)
Events(t) == {ev[i] : i \in {j \in DOMAIN ev : ev[j].t = t}}

\* get() of watcher r is on the call stack
Evaluating(r) == \E i \in DOMAIN stack : stack[i].kind = "get" /\ stack[i].w = r

NoEvaluation == \A i \in DOMAIN stack : stack[i].kind # "get"

SubscribedTo(r) == {d \in Keys : r \in Range(subs[d])}


Batched(r) == ~W[r].lazy /\ ~W[r].sync

(* C1: batching and dedup.  When a flush ends, every batched (non-lazy,      *)
(* non-sync) computation that is still active, that had one or more of the  *)
(* properties it read in its last evaluation written (to a new value)       *)
(* before the flush began, and none of them written during the flush, was   *)
(* put in the queue exactly once and had its expression evaluated exactly   *)
(* once in that flush; outside a flush no computation is in the queue       *)
(* twice; and between flushes, once the writes have returned, every such    *)
(* computation is in the queue.                                              *)
InvalidatedBefore(g) == {p[1] : p \in g.inval} \ {p[1] : p \in g.mut}

C1_BatchingDedup ==
  /\ \A e \in Events("flushEnd") :
       \A r \in InvalidatedBefore(e.gh) :
         W[r].active /\ Batched(r) =>
           Get0(e.gh.enq, r) = 1 /\ Get0(e.gh.runs, r) = 1
  /\ ~flushing => \A i, j \in DOMAIN queue : queue[i] = queue[j] => i = j
  /\ Quiescent /\ ~flushing =>
       \A p \in gh.inval :
         W[p[1]].active /\ Batched(p[1]) => p[1] \in Range(queue) /\ waiting

\* C1 witness: a flush has ended in which a computation, two of whose
\* dependencies were written before the flush, was evaluated exactly once
C1_Witness ==
  \E e \in Events("flushEnd") :
    \E r \in InvalidatedBefore(e.gh) :
      /\ W[r].active /\ Batched(r)
      /\ {<<r, "a">>, <<r, "b">>} \subseteq e.gh.inval
      /\ Get0(e.gh.enq, r) = 1 /\ Get0(e.gh.runs, r) = 1

(* C2: flush ordering.  Watcher ids are strictly increasing in construction *)
(* order; and whenever the flush loop starts a watcher c (its before hook   *)
(* and run()), no watcher still waiting in the queue has a smaller id, and  *)
(* every watcher with a smaller id that was pending when the flush began    *)
(* has already completed its run().                                          *)
C2_FlushOrdering ==
  /\ \A i, j \in Refs : i < j => W[i].id < W[j].id
  /\ \A e \in Events("flushRun") :
       /\ \A j \in (index + 2)..Len(queue) : W[queue[j]].id > W[e.w].id
       /\ \A p \in pendingAtStart : W[p].id < W[e.w].id => p \in ranInFlush

\* C2 witness: the flush starts the second of two watchers that were pending
\* together, the first having run its before hook and its run()
C2_Witness ==
  \E e \in Events("flushRun") :
    \E p \in pendingAtStart :
      /\ e.w \in pendingAtStart /\ W[p].id < W[e.w].id /\ p \in ranInFlush
      /\ W[p].before /\ W[p].active /\ W[e.w].active

(* C3: stale-edge pruning.  A computation that is not being evaluated is in *)
(* the subscriber list of no Dep that its last evaluation did not read (in  *)
(* particular of none that the evaluation before read and the last one      *)
(* dropped), so the copy of subs a write to such a property notifies does   *)
(* not contain it; and an active computation whose last evaluation dropped  *)
(* a Dep is in the copy notified by a write to a property it did read.      *)
C3_StaleEdgePruning ==
  /\ \A r \in Refs : ~Evaluating(r) => SubscribedTo(r) \subseteq W[r].read
  /\ \A e \in Events("notify") : \A r \in Refs :
       ~Evaluating(r) =>
         /\ e.dep \notin W[r].read => r \notin Range(e.snap)
         /\ W[r].active /\ W[r].dropped # {} /\ e.dep \in W[r].read
              => r \in Range(e.snap)

\* C3 witness: a property that an idle active computation read in the
\* evaluation before its last, but not in its last, is written
C3_Witness ==
  \E e \in Events("notify") : \E r \in Refs :
    /\ ~Evaluating(r) /\ W[r].active /\ e.dep \in W[r].dropped
    /\ r \notin Range(e.snap) /\ W[r].read # {}

(* C4: edge consistency.  The claim as stated: whenever no get() is in      *)
(* progress, watcher r is in the subs of Dep d if and only if d is in       *)
(* r.deps, and r.depIds holds exactly the ids of r.deps.                     *)
C4_EdgeConsistency_Original ==
  NoEvaluation =>
    \A r \in Refs :
      /\ SubscribedTo(r) = Range(W[r].deps)
      /\ W[r].depIds = Range(W[r].deps)

(* C4 as amended: whenever no get() is in progress, r in d.subs implies d   *)
(* in r.deps for every watcher, the converse holds for every active         *)
(* watcher, and r.depIds holds exactly the ids of r.deps.                    *)
C4_EdgeConsistency ==
  NoEvaluation =>
    \A r \in Refs :
      /\ SubscribedTo(r) \subseteq Range(W[r].deps)
      /\ W[r].active => SubscribedTo(r) = Range(W[r].deps)
      /\ W[r].depIds = Range(W[r].deps)

\* C4 witness: no evaluation is in progress and an active watcher that has
\* been re-evaluated with a changed set of dependencies is subscribed to
\* exactly its deps, next to a torn-down watcher that kept its deps
C4_Witness ==
  /\ NoEvaluation
  /\ \E r \in Refs : W[r].active /\ W[r].dropped # {} /\ W[r].deps # <<>>
                     /\ SubscribedTo(r) = Range(W[r].deps)
  /\ \E r \in Refs : ~W[r].active /\ W[r].deps # <<>> /\ SubscribedTo(r) = {}

(* C5: evaluation postcondition.  Whenever a call of get() completes on a   *)
(* watcher r that has not been torn down, r.deps is exactly the set of Deps *)
(* whose depend() ran while r was the active computation during that call,  *)
(* each of them has r in its subs, and r.newDeps and r.newDepIds are empty. *)
C5_EvaluationPostcondition ==
  \A e \in Events("getEnd") :
    W[e.w].active =>
    /\ Range(W[e.w].deps) = W[e.w].read
    /\ \A d \in Range(W[e.w].deps) : e.w \in Range(subs[d])
    /\ W[e.w].newDeps = <<>> /\ W[e.w].newDepIds = {}

(* C6: teardown silences the callback.  The callback of a watcher is never  *)
(* invoked once teardown() has been called on it.                            *)
C6_TeardownSilencesCallback ==
  \A e \in Events("cb") : e.v = 1

(* C7: teardown releases every edge.  A torn-down watcher that is not being *)
(* evaluated is in the subs of no Dep (stated for the watchers that are     *)
(* evaluated eagerly, whose getter is not invoked after the teardown).      *)
C7_TeardownReleasesEdges ==
  \A r \in Refs :
    ~W[r].lazy /\ ~W[r].active /\ ~Evaluating(r) => SubscribedTo(r) = {}

(* C8: an inactive computation never re-evaluates.  The getter of a watcher *)
(* is never invoked after its teardown().                                    *)
C8_InactiveNeverEvaluates ==
  \A e \in Events("getter") : e.v = 1

(* C9: lazy caching.  The claim as stated: a lazy watcher is constructed    *)
(* without invoking its getter (value undefined, dirty true), and between   *)
(* two consecutive notifications its getter is invoked at most once.         *)
C9_LazyCaching_Original ==
  /\ \A e \in Events("new") :
       W[e.w].lazy => W[e.w].evals = 0 /\ W[e.w].value = Undef /\ W[e.w].dirty
  /\ \A r \in Refs : W[r].lazy => W[r].evals <= 1

(* C9 as amended: a lazy watcher is constructed without invoking its getter *)
(* (value undefined, dirty true); its getter is invoked only while it is    *)
(* dirty; a value is returned only after an invocation since the last       *)
(* notification; and between two consecutive notifications the getter is    *)
(* invoked at most once unless an invocation threw.                          *)
C9_LazyCaching ==
  /\ \A e \in Events("new") :
       W[e.w].lazy => W[e.w].evals = 0 /\ W[e.w].value = Undef /\ W[e.w].dirty
  /\ \A e \in Events("getter") : W[e.w].lazy => W[e.w].dirty
  /\ \A e \in Events("computed") : W[e.w].evals >= 1 /\ ~W[e.w].dirty
  /\ \A r \in Refs : W[r].lazy /\ ~W[r].failed => W[r].evals <= 1

\* C9 witness: the value of a lazy watcher is returned from the cache: it is
\* not dirty, no getter was invoked in this step, and its getter has been
\* invoked once since the last notification
C9_Witness ==
  \E e \in Events("computed") :
    /\ Events("getEnd") = {} /\ W[e.w].evals = 1 /\ ~W[e.w].dirty
    /\ W[e.w].active /\ stack = <<>>

(* C10: lazy freshness.  Every value that a read of the computed property   *)
(* returns while its lazy watcher is active equals what the watcher's       *)
(* expression yields on the current state (when it yields a value there).   *)
C10_LazyFreshness ==
  \A e \in Events("computed") :
    W[e.w].active /\ PureValue(W[e.w].getter, 1, 0) # Undef
      => e.v = PureValue(W[e.w].getter, 1, 0)

(* C11: transitive dependency through a cached computation.  When get() of  *)
(* a computation R completes in which R obtained the value of the lazy      *)
(* computation C, R is in the subs of every Dep of C.deps and has them in   *)
(* R.deps; and a write to a Dep of C.deps notifies C, and notifies R unless *)
(* R is already in the scheduler queue.                                      *)
C11_TransitiveDependency ==
  /\ \A e \in Events("getEnd") : \A c \in W[e.w].readLazy :
       Range(W[c].deps) \subseteq SubscribedTo(e.w) \cap Range(W[e.w].deps)
  /\ \A e \in Events("notify") : \A r \in Refs : \A c \in W[r].readLazy :
       W[r].active /\ W[c].active /\ ~Evaluating(r) /\ ~Evaluating(c)
         /\ e.dep \in Range(W[c].deps)
       => /\ c \in Range(e.snap)
          /\ r \in Range(e.snap) \/ W[r].id \in has

(* ------------------------- the observation layer ------------------------ *)
\* the events of type t of the last call, and how many of them are on the
\* Dep of property k of object o (k = "ob": the Dep of o's Observer)
ObsEvents(h, t) == {i \in DOMAIN h.oev : h.oev[i].t = t}

EventCount(h, t, o, k) ==
  Cardinality({i \in ObsEvents(h, t) : h.oev[i].o = o /\ h.oev[i].k = k})

(* C12: no-op writes.  A write to a reactive data property of a value       *)
(* strictly equal to the stored one, or of NaN when NaN is stored, leaves   *)
(* every stored value and every child wrapper unchanged and calls notify on *)
(* no Dep; every other write stores the new value and calls notify exactly  *)
(* once, on the Dep of that property.                                        *)
C12_NoOpWrites ==
  [][\A o \in {"D", "E"}, v \in Prims \cup Objects :
       Assign(o, "p", v) /\ heap.acc[o]["p"].on =>
         IF v = heap.own[o]["p"]
         THEN /\ heap'.own = heap.own /\ heap'.acc = heap.acc
              /\ ObsEvents(heap', "notify") = {}
         ELSE /\ heap'.own[o]["p"] = v
              /\ EventCount(heap', "notify", o, "p") = 1
              /\ Cardinality(ObsEvents(heap', "notify")) = 1]_vars

\* C12 witness: NaN has been written to a reactive property that holds NaN,
\* to which a watcher is subscribed, and no Dep was notified
C12_Witness ==
  /\ heap.op = <<"assign", "D", "p">> /\ heap.acc["D"]["p"].on
  /\ heap.own["D"]["p"] = "NaN" /\ heap.dsubs["D"]["p"] = {"w"}
  /\ ObsEvents(heap, "notify") = {}

\* the values observe wraps when the switch is on
Observable(v) ==
  /\ IsObject(v) /\ ~IsVNode(v) /\ (IsArray(v) \/ IsPlainObject(v))
  /\ IsExtensible(v) /\ ~IsVue(v)

Creations(h) ==
  ObsEvents(h, "newObserver") \cup ObsEvents(h, "newDep")
    \cup ObsEvents(h, "defineReactive")

(* C13: idempotent observation.  Every call of observe on an observable     *)
(* value (one that carries a wrapper already, or is called with the switch  *)
(* on) returns the wrapper of that value; the first call constructs one     *)
(* Observer and defines each own property once; a call on a value that      *)
(* carries a wrapper creates no Observer, no Dep and no accessor, and       *)
(* changes nothing but the wrapper's vmCount, which grows by one exactly    *)
(* when the call is made with asRootData.                                    *)
C13_IdempotentObservation ==
  [][\A v \in Objects, r \in BOOLEAN :
       ObserveCall(v, r) /\ Observable(v) /\ (heap.ob[v].on \/ heap.shouldObserve)
       => /\ heap'.ret = v /\ heap'.ob[v].on
          /\ heap.ob[v].on =>
               /\ Creations(heap') = {}
               /\ heap' = [heap EXCEPT !.ob[v].vmCount = IF r THEN @ + 1 ELSE @,
                                        !.op = <<"observe", v, r>>,
                                        !.oev = <<>>, !.ret = v, !.target = None]
          /\ ~heap.ob[v].on =>
               /\ EventCount(heap', "newObserver", v, "ob") = 1
               /\ heap'.ob[v].vmCount = IF r THEN 1 ELSE 0
               /\ v \in Holders =>
                    \A k \in OKeys :
                      EventCount(heap', "defineReactive", v, k)
                        = IF heap.own[v][k] = Absent THEN 0 ELSE 1]_vars

\* C13 witness: observe(E, true) has been called on E, which carried a
\* wrapper counting one root consumer: nothing was created and it counts two
C13_Witness ==
  /\ heap.op = <<"observe", "E", TRUE>> /\ heap.ret = "E"
  /\ heap.ob["E"].vmCount = 2 /\ heap.oev = <<>>
  /\ heap.acc["E"]["p"].on

\* the cases in which observe is said to refuse the value
Refused(h, v) ==
  \/ ~IsObject(v) \/ IsVNode(v) \/ IsVue(v) \/ ~IsExtensible(v)
  \/ ~(IsArray(v) \/ IsPlainObject(v))
  \/ ~h.shouldObserve

\* the call left every value as it was: no wrapper, accessor or Dep
\* was added, removed or changed
Unmodified(h1, h2) ==
  /\ h2.ob = h1.ob /\ h2.acc = h1.acc /\ h2.own = h1.own
  /\ h2.items = h1.items /\ h2.dsubs = h1.dsubs
  /\ Creations(h2) = {}

(* C14: observation refusals.  The claim as stated: observe(value) returns  *)
(* nothing and leaves the value unmodified when the value is not an object, *)
(* is a VNode, is a Vue instance, is non-extensible, is neither an array    *)
(* nor a plain object, or when the observation switch is off.               *)
C14_ObservationRefusals_Original ==
  [][\A v \in Prims \cup Objects, r \in BOOLEAN :
       ObserveCall(v, r) /\ Refused(heap, v)
       => heap'.ret = None /\ Unmodified(heap, heap')]_vars

(* C14 as amended: in each of these cases observe creates no wrapper, no    *)
(* Dep and no accessor; when the value carries no wrapper yet it returns    *)
(* nothing and leaves the value unmodified; when the value carries a        *)
(* wrapper already it returns that wrapper, whose vmCount grows by one if   *)
(* the call is made with asRootData, and changes nothing else.              *)
C14_ObservationRefusals ==
  [][\A v \in Prims \cup Objects, r \in BOOLEAN :
       ObserveCall(v, r) /\ Refused(heap, v)
       => /\ Creations(heap') = {}
          /\ ~IsObject(v) \/ ~heap.ob[v].on
               => heap'.ret = None /\ Unmodified(heap, heap')
          /\ IsObject(v) /\ heap.ob[v].on
               => /\ heap'.ret = v
                  /\ Unmodified([heap EXCEPT !.ob[v].vmCount =
                                    IF r THEN @ + 1 ELSE @], heap')]_vars

\* C14 witness: observe has been called with the switch off on the plain
\* object E, which carries no wrapper, and returned nothing
C14_Witness ==
  /\ heap.op = <<"observe", "E", FALSE>> /\ ~heap.shouldObserve
  /\ heap.ret = None /\ ~heap.ob["E"].on /\ ~heap.acc["E"]["p"].on
  /\ heap.ob["D"].on

\* the last call notified the Dep of property k of object o (k = "ob": the
\* Dep of o's Observer) while the watcher was among its subscribers
Scheduled(h, o, k) ==
  \E i \in ObsEvents(h, "notify") :
    h.oev[i].o = o /\ h.oev[i].k = k /\ "w" \in h.oev[i].subs

\* the last call notified one Dep, once, that of property k of object o,
\* after everything else it did
NotifiedOnceLast(h, o, k) ==
  /\ ObsEvents(h, "notify") = {Len(h.oev)}
  /\ EventCount(h, "notify", o, k) = 1

\* the methods of methodsToPatch
Methods == {"push", "pop", "shift", "unshift", "splice", "sort", "reverse"}

\* the value the watcher holds was computed from the array, read through
\* the accessor of D.p
ReadArray(h) ==
  <<"D", "p">> \in h.touched /\ h.own["D"]["p"] = "A" /\ ~h.pending

ObservedNonRoot(h, o) == ~IsVue(o) /\ h.ob[o].on /\ h.ob[o].vmCount = 0

(* C16: structural helpers.  On an observed object that is not root data,   *)
(* set with a key not yet present installs a reactive property holding the  *)
(* value and notifies the object-level Dep exactly once, last; set on a     *)
(* present key does what the assignment target[key] = val does, through the *)
(* property's setter, and does not notify the object-level Dep; del of an   *)
(* own key removes it and notifies the object-level Dep exactly once; del   *)
(* of an absent key changes nothing and notifies no Dep.                     *)
C16_StructuralHelpers ==
  [][\A k \in OKeys :
       /\ heap'.op = <<"set", "E", k>> /\ SetCall("E", k, "1")
          /\ ObservedNonRoot(heap, "E")
          => IF heap.own["E"][k] = Absent
             THEN /\ heap'.own["E"][k] = "1" /\ heap'.acc["E"][k].on
                  /\ heap'.ret = "1"
                  /\ EventCount(heap', "defineReactive", "E", k) = 1
                  /\ NotifiedOnceLast(heap', "E", "ob")
             ELSE /\ heap' = [PutValue(Begin("set", "E", k), "E", k, "1")
                                EXCEPT !.ret = "1"]
                  /\ heap.acc["E"][k].on /\ heap'.own["E"][k] = "1"
                  /\ EventCount(heap', "notify", "E", "ob") = 0
                  /\ EventCount(heap', "notify", "E", k)
                       = IF heap.own["E"][k] = "1" THEN 0 ELSE 1
       /\ heap'.op = <<"del", "E", k>> /\ DelCall("E", k)
          /\ ObservedNonRoot(heap, "E")
          => IF heap.own["E"][k] # Absent
             THEN /\ heap'.own["E"][k] = Absent /\ ~heap'.acc["E"][k].on
                  /\ NotifiedOnceLast(heap', "E", "ob")
             ELSE /\ Unmodified(heap, heap')
                  /\ ObsEvents(heap', "notify") = {}]_vars

\* C16 witness: set(E, "q", 1) has added the property q to the observed
\* object E, which is not root data, and notified the watcher that read E
\* through D.p
C16_Witness ==
  /\ heap.op = <<"set", "E", "q">> /\ ObservedNonRoot(heap, "E")
  /\ heap.own["E"]["q"] = "1" /\ heap.acc["E"]["q"].on
  /\ EventCount(heap, "defineReactive", "E", "q") = 1
  /\ NotifiedOnceLast(heap, "E", "ob") /\ Scheduled(heap, "E", "ob")

\* o is a Vue instance or the root data of a component
Protected(h, o) == IsVue(o) \/ (h.ob[o].on /\ h.ob[o].vmCount > 0)

\* the last call was set with a key not yet present, or del, on a protected
\* target
ProtectedCall(o, k) ==
  /\ Protected(heap, o)
  /\ \/ heap'.op = <<"set", o, k>> /\ SetCall(o, k, "1") /\ heap.own[o][k] = Absent
     \/ heap'.op = <<"del", o, k>> /\ DelCall(o, k)

(* C17: protected targets.  The claim as stated: set with a key not yet     *)
(* present, or del, on a Vue instance or on an object whose wrapper has     *)
(* vmCount > 0 reports one diagnostic, completes, leaves the properties of  *)
(* the target and their values unchanged and notifies no Dep.                *)
C17_ProtectedTargets_Original ==
  [][\A o \in {"E", "U"}, k \in OKeys :
       ProtectedCall(o, k)
       => /\ Cardinality(ObsEvents(heap', "warn")) = 1
          /\ Unmodified(heap, heap')
          /\ ObsEvents(heap', "notify") = {}]_vars

(* C17 as amended: such a call completes, leaves the properties of the      *)
(* target and their values unchanged and notifies no Dep; it reports one    *)
(* diagnostic in a development build and none in a production build.        *)
C17_ProtectedTargets ==
  [][\A o \in {"E", "U"}, k \in OKeys :
       ProtectedCall(o, k)
       => /\ Cardinality(ObsEvents(heap', "warn"))
               = IF heap.production THEN 0 ELSE 1
          /\ Unmodified(heap, heap')
          /\ ObsEvents(heap', "notify") = {}]_vars

\* C17 witness: del(E, "p") has been called in a development build on E,
\* the root data of two components, whose property p the watcher read: one
\* diagnostic, p is still there and nothing was notified
C17_Witness ==
  /\ heap.op = <<"del", "E", "p">> /\ heap.ob["E"].vmCount = 2
  /\ ~heap.production /\ Cardinality(ObsEvents(heap, "warn")) = 1
  /\ heap.own["E"]["p"] = "1" /\ heap.acc["E"]["p"].on
  /\ heap.dsubs["E"]["p"] = {"w"} /\ ObsEvents(heap, "notify") = {}

(* ------------------------------ the scheduler --------------------------- *)
\* flushSchedulerQueue is on the call stack
FlushRunning == \E i \in DOMAIN stack : stack[i].kind = "flush"

\* what holds in the step in which the diagnostic is emitted
RunawayGuard ==
  /\ Cardinality({i \in DOMAIN ev : ev[i].t = "warn"}) <= 1
  /\ \A id \in DOMAIN circular : circular[id] <= MAX_UPDATE_COUNT
  /\ \A r \in Refs :
       Get0(gh.runs, r) <= 1 + MaxWatchers * (MAX_UPDATE_COUNT + 1)
  /\ \A e \in Events("warn") :
       /\ \E fe \in Events("flushEnd") :
            /\ Get0(fe.gh.runs, e.w) >= MAX_UPDATE_COUNT + 1
            /\ Get0(fe.gh.enq, e.w) >= MAX_UPDATE_COUNT + 1
       /\ ~FlushRunning /\ ~flushing /\ ~waiting
       /\ queue = <<>> /\ has = {} /\ index = 0 /\ circular = <<>>

CbFired(r) == \E c \in Events("cb") : c.w = r

\* the callbacks invoked in the last step got the value of the expression on
\* the current state and the value the evaluation before returned, and the
\* new value is the cached one now
CbArguments ==
  \A c \in Events("cb") :
    Batched(c.w) =>
      /\ c.nv = PureValue(W[c.w].getter, 1, 0)
      /\ \E g \in Events("getEnd") : g.w = c.w /\ c.ov = g.prev
      /\ W[c.w].value = c.nv

\* at the end of a flush: a watcher whose dependencies were written before
\* the flush and not during it had its callback invoked at most once
CbAtMostOnce ==
  \A e \in Events("flushEnd") :
    \A r \in InvalidatedBefore(e.gh) :
      W[r].active /\ Batched(r) => Get0(e.gh.cbs, r) <= 1

(* C19: callback arguments across a batch.  The claim as stated: after      *)
(* several writes in one turn the flush invokes the callback of a watcher   *)
(* of a primitive value at most once (when nothing it depends on is written *)
(* during the flush), with the value of the expression at flush time and    *)
(* the value cached by the evaluation before, and the new value is cached   *)
(* afterwards; when run() finds the value it had cached, the callback is    *)
(* not invoked.                                                              *)
C19_CallbackArguments_Original ==
  /\ CbAtMostOnce
  /\ CbArguments
  /\ \A e \in Events("run") :
       Batched(e.w) /\ ~IsObjectValue(e.v) /\ e.v = e.old => ~CbFired(e.w)

(* C19 as amended: the same, the last part for watchers without the option  *)
(* deep: a deep watcher has its callback invoked also with the value it had *)
(* cached.                                                                   *)
C19_CallbackArguments ==
  /\ CbAtMostOnce
  /\ CbArguments
  /\ \A e \in Events("run") :
       Batched(e.w) /\ ~IsObjectValue(e.v) /\ e.v = e.old
         => (CbFired(e.w) <=> W[e.w].deep)

\* C19 witness: in a flush that follows writes to both properties, the
\* callback of a watcher without the option deep is invoked with a new
\* value and the one cached before
C19_Witness ==
  \E c \in Events("cb") :
    /\ Batched(c.w) /\ ~W[c.w].deep /\ flushing
    /\ {<<c.w, "a">>, <<c.w, "b">>} \subseteq gh.inval
    /\ c.nv = 1 /\ c.ov = 0 /\ W[c.w].value = 1

\* run() decided for the callback exactly by its test
RunRule ==
  \A e \in Events("run") :
    (\E c \in Events("cb") : c.w = e.w /\ c.nv = e.v /\ c.ov = e.old)
      <=> (e.v # e.old \/ IsObjectValue(e.v) \/ W[e.w].deep)

\* the fields of a watcher other than its dependency sets
Fields(w) ==
  <<w.id, w.lazy, w.sync, w.user, w.deep, w.before, w.active, w.dirty,
    w.value, w.getter, w.cb>>

\* a run() that does not invoke the callback changes the dependency sets
\* at most
RunWithoutCb ==
  \A r \in Refs :
    (\E i \in DOMAIN ev' : ev'[i].t = "run" /\ ev'[i].w = r)
      /\ ~(\E i \in DOMAIN ev' : ev'[i].t = "cb")
    => /\ val' = val /\ DOMAIN W' = DOMAIN W
       /\ Fields(W'[r]) = Fields(W[r])
       /\ \A x \in Refs \ {r} : W'[x] = W[x]
       /\ queue' = queue /\ has' = has /\ waiting' = waiting
       /\ flushing' = flushing /\ index' = index /\ circular' = circular
       /\ uid' = uid /\ vmWatchers' = vmWatchers

(* C20: callback firing rule.  run() on an active watcher, once get() has   *)
(* returned the value, invokes the callback with (value, cached value) if   *)
(* and only if the value differs from the cached one, or is an object, or   *)
(* the watcher is deep; when it does not invoke it, the cached value and    *)
(* everything but the dependency sets are left unchanged.                    *)
C20_CallbackFiringRule == [] RunRule /\ [][RunWithoutCb]_vars

\* C20 witness: run() of a deep watcher has found the primitive value it
\* had cached and invoked the callback with it
C20_Witness ==
  \E e \in Events("run") :
    /\ W[e.w].deep /\ e.v = e.old /\ e.v = 1
    /\ \E c \in Events("cb") : c.w = e.w /\ c.nv = 1 /\ c.ov = 1

(* ------------------------------ errors ---------------------------------- *)
\* the exception has reached a running get(): what the step that handles it
\* leaves behind
GetThrew ==
  LET f == Top(Cur)
      r == f.w
      sink == \E i \in DOMAIN ev' : ev'[i].t = "error" /\ ev'[i].w = r
  IN /\ targetStack' = ButLast(targetStack)
     /\ \A i \in DOMAIN stack' : ~(stack'[i].kind = "get" /\ stack'[i].w = r)
     /\ W'[r].newDeps = <<>> /\ W'[r].newDepIds = {}
     /\ Range(W'[r].deps) = f.touched
     /\ {d \in Keys : r \in Range(subs'[d])} = f.touched
     /\ IF W[r].user
        THEN /\ sink /\ ~exc'
             /\ \E i \in DOMAIN ev' :
                  ev'[i].t = "getEnd" /\ ev'[i].w = r /\ ev'[i].v = Undef
        ELSE /\ ~sink
             /\ exc' \/ stack' = <<>>
             /\ W'[r].value = W[r].value /\ W'[r].dirty = W[r].dirty

FlushSurvives ==
  /\ flushing /\ Events("error") # {}
       => ~exc /\ stack # <<>> /\ stack[1].kind = "flush"
  /\ gh.errs # {} => flushing /\ stack # <<>> /\ stack[1].kind = "flush"
  /\ \A e \in Events("flushRun") :
       \A p \in pendingAtStart : W[p].id < W[e.w].id => p \in ranInFlush
  /\ \A e \in Events("flushEnd") :
       /\ \A r \in DOMAIN e.gh.enq : Get0(e.gh.runs, r) >= 1
       /\ queue = <<>> /\ has = {} /\ ~waiting /\ ~flushing /\ index = 0
  /\ Quiescent /\ ~flushing =>
       \A p \in gh.inval : Batched(p[1]) => p[1] \in Range(queue) /\ waiting

Updates == {i \in DOMAIN ev' : ev'[i].t = "update"}

\* what a step does to the notify() calls on the stack: the one on top, when
\* no exception is pending, calls update() on the next watcher of its copy
\* or returns at the end of the copy; the others wait
NotifyPass ==
  /\ \A n \in DOMAIN stack :
       stack[n].kind = "notify" =>
         LET f == stack[n]
             running == n = Len(stack) /\ ~exc
         IN IF running /\ f.i <= Len(f.snap)
            THEN /\ Len(stack') >= n
                 /\ stack'[n] = [f EXCEPT !.i = f.i + 1]
                 /\ \E i \in Updates : ev'[i].w = f.snap[f.i]
                 /\ Cardinality(Updates) = 1
            ELSE IF running \/ n > Len(stack')
            THEN Len(stack') = n - 1 /\ Updates = {}
            ELSE stack'[n] = f
  /\ Updates # {} => stack # <<>> /\ Top(Cur).kind = "notify"

(* C28: notification snapshot.  notify() on a Dep starts with a copy of the *)
(* subscriber list as it is then and calls update() once on each watcher of *)
(* the copy, in the order of the list, whatever is removed from or added to *)
(* the list while the calls are made; no other update() call is made.       *)
C28_NotificationSnapshot ==
  /\ [] (\A e \in Events("notify") :
          /\ e.snap = subs[e.dep]
          /\ Top(Cur) = [kind |-> "notify", dep |-> e.dep, snap |-> e.snap, i |-> 1])
  /\ [][NotifyPass]_vars

\* C28 witness: notify() has called update() on a watcher of its copy that
\* is no longer in the subscriber list, after another watcher of the copy
C28_Witness ==
  \E n \in DOMAIN stack : \E e \in Events("update") :
    /\ stack[n].kind = "notify" /\ stack[n].i = 3
    /\ stack[n].snap[2] = e.w
    /\ e.w \notin Range(subs[stack[n].dep])

(* ---------------------------- Watcher.update ---------------------------- *)
\* the step made the call update() on watcher r: what it did
UpdateDispatch(r) ==
  LET called(t) == \E i \in DOMAIN ev' : ev'[i].t = t
      same == Len(stack') = Len(stack)
  IN IF W[r].lazy
     THEN /\ W'[r].dirty /\ W'[r].value = W[r].value
          /\ ~called("getter") /\ ~called("cb") /\ same
          /\ queue' = queue /\ has' = has
     ELSE IF W[r].sync
     THEN /\ queue' = queue /\ has' = has
          /\ IF W[r].active
             THEN /\ Len(stack') = Len(stack) + 1
                  /\ stack'[Len(stack')].kind = "get"
                  /\ stack'[Len(stack')].w = r
                  /\ stack'[Len(stack')].caller = "run"
             ELSE same /\ ~called("getter")
     ELSE /\ ~called("getter") /\ ~called("cb") /\ ~called("run") /\ same
          /\ W'[r] = W[r]
          /\ W[r].id \in has'
          /\ queue' = IF W[r].id \in has THEN queue ELSE
                         IF flushing THEN queue' ELSE Append(queue, r)
          /\ r \in Range(queue')

\* run() of a sync watcher has returned, or has reached its callback: the
\* notify() that called update() on it is the frame right below
SyncRunInsideNotify ==
  \A e \in Events("run") :
    W[e.w].sync =>
      \E n \in DOMAIN stack :
        /\ stack[n].kind = "notify" /\ stack[n].i > 1
        /\ stack[n].snap[stack[n].i - 1] = e.w
        /\ \/ n = Len(stack)
           \/ n = Len(stack) - 1 /\ Top(Cur).kind = "cb" /\ Top(Cur).w = e.w

\* the expression and the callback of a batched watcher are invoked by the
\* constructor and by the flush only
BatchedRunsInFlush ==
  /\ \A e \in Events("getter") :
       Batched(e.w) =>
         \/ Top(Cur).caller = "ctor"
         \/ /\ flushing /\ Len(stack) >= 2
            /\ stack[Len(stack) - 1].kind = "flush"
  /\ \A e \in Events("cb") : Batched(e.w) => flushing /\ stack[1].kind = "flush"

(* C29: update dispatch by mode.  update() on a lazy watcher only sets      *)
(* dirty: no evaluation, no callback, nothing queued.  On a sync watcher it *)
(* calls run(), whose evaluation and callback are complete before the       *)
(* notify() that called update() goes on, so before the write returns.  On  *)
(* any other watcher it only puts the watcher in the queue: its expression  *)
(* and its callback are invoked by the flush.                                *)
C29_UpdateDispatch ==
  /\ [] (SyncRunInsideNotify /\ BatchedRunsInFlush)
  /\ [][\A i \in DOMAIN ev' : ev'[i].t = "update" => UpdateDispatch(ev'[i].w)]_vars

\* C29 witness: a write has notified a sync watcher, whose run() has
\* returned, and then a lazy watcher, which is dirty and was not evaluated
C29_Witness ==
  \E e \in Events("update") :
    /\ W[e.w].lazy /\ W[e.w].dirty /\ W[e.w].active /\ W[e.w].evals = 0
    /\ Events("getter") = {} /\ queue = <<>>
    /\ Top(Cur).kind = "notify" /\ Top(Cur).i = 3
    /\ W[Top(Cur).snap[1]].sync /\ W[Top(Cur).snap[1]].value # Undef

(* --------------------------- the target stack --------------------------- *)
\* the watchers whose get() is on the call stack, outermost first
RECURSIVE GetFrames(_)
GetFrames(st) ==
  IF st = <<>> THEN <<>>
  ELSE IF Last(st).kind = "get" THEN Append(GetFrames(ButLast(st)), Last(st).w)
  ELSE GetFrames(ButLast(st))

\* a read of a property or of the computed property, from an expression
\* or from outside any computation: no watcher gains a dependency or a
\* subscription except the one on top of the target stack and the watchers
\* whose get() the step enters
ReadRecorded ==
  LET t == DepTarget(Cur)
      entered == {ev'[i].w : i \in {j \in DOMAIN ev' : ev'[j].t = "getter"}}
      deps(w) == <<w.deps, w.depIds, w.newDeps, w.newDepIds>>
  IN \A r \in Refs \ ({t} \cup entered) :
       /\ deps(W'[r]) = deps(W[r])
       /\ \A d \in Keys : r \in Range(subs'[d]) => r \in Range(subs[d])

(* C30: active-computation stack discipline.  The target stack holds        *)
(* exactly the watchers whose get() is running, in call order, so that when *)
(* a get() returns or throws the active computation is the one that was     *)
(* active when it was entered, at any depth of nesting; a read of a         *)
(* property records a dependency for the watcher on top of the stack only,  *)
(* and for nobody when no computation is active.                             *)
C30_TargetStack ==
  /\ [] (targetStack = GetFrames(stack))
  /\ [][(HasOp(Cur) /\ CurOp(Cur).op \in {"read", "comp"}) \/ Quiescent
          => ReadRecorded]_vars

\* C30 witness: get() of the lazy watcher, entered from the evaluation of
\* another watcher, has returned: the other watcher is the active
\* computation again and has been given the dependencies of the lazy one
C30_Witness ==
  \E e \in Events("getEnd") :
    /\ W[e.w].lazy /\ Len(targetStack) = 1 /\ targetStack[1] # e.w
    /\ Top(Cur).kind = "get" /\ Top(Cur).w = targetStack[1]
    /\ W[e.w].deps # <<>>
    /\ Range(W[e.w].deps) \subseteq W[targetStack[1]].newDepIds

(* --------------------------- mid-flush queueing ------------------------- *)
\* the part of the queue the flush has not reached is in ascending id order
TailSorted ==
  flushing =>
    \A i, j \in (index + 2)..Len(queue) : i < j => W[queue[i]].id < W[queue[j]].id

\* a step of a flush: the part of the queue up to the watcher being run is
\* left as it is and the index does not go back; what is queued goes behind
\* the index; and the flush ends, unless the circular-update check stops it,
\* with the index on the last entry of the queue
QueueInFlush ==
  flushing /\ stack # <<>> =>
    IF \E i \in DOMAIN ev' : ev'[i].t = "flushEnd"
    THEN (\E i \in DOMAIN ev' : ev'[i].t = "warn") \/ index + 1 >= Len(queue)
    ELSE /\ index' >= index /\ Len(queue') >= Len(queue)
         /\ \A i \in 1..Len(queue) : i <= index + 1 => queue'[i] = queue[i]
         /\ Range(queue) \subseteq Range(queue')
         /\ \A r \in Refs :
              W[r].id \notin has /\ W[r].id \in has'
                => \E i \in (index' + 1)..Len(queue') : queue'[i] = r

ComputedDefined(r) ==
  (\E i \in DOMAIN W[r].getter : W[r].getter[i].op = "comp")
    => computedWatchers \in 1..(r - 1)

\* what the expression returns when it is evaluated on the current state:
\* a read of the computed property yields the value computedGetter returns,
\* the cached one unless the lazy watcher is dirty
RECURSIVE ReturnsNow(_, _, _)
ReturnsNow(script, pc, acc) ==
  IF pc > Len(script) THEN acc
  ELSE LET o == script[pc]
           c == computedWatchers
       IN CASE o.op = "read" ->
                 ReturnsNow(script, pc + 1,
                            IF Cond(o.c, acc) THEN acc + val[o.k] ELSE acc)
            [] o.op = "comp" ->
                 LET v == IF c = 0 THEN 0
                          ELSE IF W[c].dirty THEN PureValue(W[c].getter, 1, 0)
                          ELSE W[c].value
                 IN IF v = Undef THEN Undef ELSE ReturnsNow(script, pc + 1, acc + v)
            [] o.op = "obj" -> ReturnsNow(script, pc + 1, ObjRef)
            [] o.op = "throw" ->
                 IF Cond(o.c, acc) THEN Undef ELSE ReturnsNow(script, pc + 1, acc)
            [] OTHER -> ReturnsNow(script, pc + 1, acc)

(* C25: quiescent consistency.  In every state in which the queue is empty, *)
(* no flush is scheduled or running and no code is on the call stack, the   *)
(* cached value of every active watcher that is not lazy is the value its   *)
(* expression yields on the current state (undefined for a user watcher     *)
(* whose expression throws; an internal watcher whose expression throws     *)
(* yields none).                                                             *)
C25_QuiescentConsistency ==
  Quiescent /\ queue = <<>> /\ ~waiting /\ ~flushing =>
    \A r \in Refs :
      W[r].active /\ ~W[r].lazy /\ ComputedDefined(r)
        /\ (W[r].user \/ ReturnsNow(W[r].getter, 1, 0) # Undef)
        => W[r].value = ReturnsNow(W[r].getter, 1, 0)

(* ------------------------------- traverse ------------------------------- *)
(* C24: deep traversal terminates.  No call of _traverse is made on an      *)
(* object while a call on the same object is still running (a recursion     *)
(* that meets an object again repeats itself without end), so the depth of  *)
(* the recursion is at most the number of objects; and when no traversal is *)
(* running the visited set is empty.                                         *)
C24_TraverseTerminates ==
  /\ \A i, j \in DOMAIN heap.trav : heap.trav[i].o = heap.trav[j].o => i = j
  /\ Len(heap.trav) <= Cardinality(Objects)
  /\ heap.trav = <<>> => heap.seen = {}

(* ------------------------------ next tick ------------------------------- *)
\* how many times flushSchedulerQueue stands among the callbacks that
\* flushCallbacks has still to call, now or in the scheduled task
FlushRegistered ==
  Cardinality({i \in DOMAIN tick.callbacks : tick.callbacks[i] = FlushCb})
    + Cardinality({i \in DOMAIN tick.copies : tick.copies[i] = FlushCb})

(* C23: single pending flush.  At most one task of the event loop is         *)
(* scheduled at any time, and one is scheduled exactly while callbacks are  *)
(* registered; a call of nextTick or queueWatcher schedules a task only     *)
(* when it registers the first callback since the last task ran; the flush  *)
(* of the queue is registered once while a flush is awaited and not at all  *)
(* otherwise; every watcher invalidated outside a flush is queued once the  *)
(* notification of the write is over and stays queued until the flush, and  *)
(* the flush that ends has run every one of them.                            *)
C23_SinglePendingFlush ==
  /\ [] (tick.timers <= 1)
  /\ [] (tick.callbacks # <<>> <=> tick.timers = 1)
  /\ [] (tick.pending <=> tick.timers = 1)
  /\ [][tick'.timers > tick.timers => tick.callbacks = <<>> /\ tick.timers = 0]_vars
  /\ [] (FlushRegistered = IF waiting /\ ~flushing THEN 1 ELSE 0)
  /\ [] ((\A i \in DOMAIN stack : stack[i].kind # "notify") =>
           \A p \in gh.inval : p[1] \in Range(queue) /\ waiting)
  /\ [] (\A e \in Events("flushEnd") :
           \A p \in e.gh.inval : Get0(e.gh.runs, p[1]) >= 1)

\* C23 witness: flushCallbacks is between two user callbacks; the first has
\* written to a, which queued two watchers and registered the flush for the
\* one task that is scheduled
C23_Witness ==
  /\ tick.copies # <<>> /\ tick.timers = 1 /\ ~flushing
  /\ FlushCb \in Range(tick.callbacks)
  /\ Len(queue) >= 2 /\ Cardinality({p[1] : p \in gh.inval}) >= 2

(* ------------------------- post-flush callbacks ------------------------- *)
\* how many times the last step invoked the post-flush callback h
FlushedCalls(h) ==
  Cardinality({i \in DOMAIN ev : ev[i].t = "flushed" /\ ev[i].w = h})

(* C27: queue reset.  The step that ends a flush leaves the queue and the    *)
(* set of pending ids empty and the flags waiting and flushing false, and   *)
(* every post-flush callback it invokes finds them so; it invokes every     *)
(* registered post-flush callback exactly once, and no other step invokes   *)
(* one; a watcher queued while no flush is awaited registers                *)
(* flushSchedulerQueue for a scheduled task.                                 *)
C27_QueueReset ==
  /\ [] (Events("flushEnd") # {} =>
           queue = <<>> /\ has = {} /\ ~waiting /\ ~flushing /\ index = 0)
  /\ [] (\A e \in Events("flushed") :
           e.queue = <<>> /\ e.has = {} /\ ~e.waiting /\ ~e.flushing)
  /\ [] (\A h \in 1..MaxHooks :
           FlushedCalls(h) =
             IF Events("flushEnd") # {} /\ h \in Range(flushed) THEN 1 ELSE 0)
  /\ [][~waiting /\ queue' # <<>> =>
          waiting' /\ tick'.timers = 1 /\ FlushCb \in Range(tick'.callbacks)]_vars

\* C27 witness: a flush that ran two watchers has ended and has invoked the
\* two registered post-flush callbacks
C27_Witness ==
  /\ Cardinality(Events("flushed")) = 2
  /\ \E e \in Events("flushEnd") : Cardinality(DOMAIN e.gh.runs) >= 2

(* ---------------------------- duplicate edges --------------------------- *)
\* no element stands twice in the sequence q
NoDuplicate(q) == \A i, j \in DOMAIN q : q[i] = q[j] => i = j

(* C36: no duplicate edges.  In every state, also in the middle of an       *)
(* evaluation, of a notification and of a flush, no watcher stands twice in *)
(* the subscriber list of a Dep, and no Dep stands twice in the deps or in  *)
(* the newDeps of a watcher.                                                 *)
C36_NoDuplicateEdges ==
  /\ \A k \in Keys : NoDuplicate(subs[k])
  /\ \A r \in Refs : NoDuplicate(W[r].deps) /\ NoDuplicate(W[r].newDeps)

\* C36 witness: a watcher that read a in its previous evaluation is reading
\* a again, next to a computed property that reads a too and that the
\* watcher has read: a has two subscribers and is in deps and in newDeps
C36_Witness ==
  \E r \in Refs :
    /\ Evaluating(r) /\ "a" \in Range(W[r].deps) /\ "a" \in Range(W[r].newDeps)
    /\ Len(subs["a"]) >= 2 /\ computedWatchers # 0
    /\ Len(W[r].newDeps) >= 2

(* ------------------------ edges to child objects ------------------------ *)
\* the last call was an evaluation of the watcher
Evaluated == heap.op # <<>> /\ heap.op[1] = "evaluate"

(* C33: edges to child objects.  When the watcher has been evaluated and    *)
(* the reactive property D.p it read holds an observed object or array, the *)
(* watcher is a subscriber of the Dep of D.p and of the Dep of the value's  *)
(* Observer, and for the array of the Dep of the Observer of every observed *)
(* element.                                                                  *)
C33_ChildEdges ==
  LET v == heap.own["D"]["p"]
  IN Evaluated /\ heap.acc["D"]["p"].on /\ IsObject(v) /\ heap.ob[v].on =>
       /\ "w" \in heap.dsubs["D"]["p"]
       /\ "w" \in heap.dsubs[v]["ob"]
       /\ IsArray(v) =>
            \A i \in DOMAIN heap.items :
              IsObject(heap.items[i]) /\ heap.ob[heap.items[i]].on
                => "w" \in heap.dsubs[heap.items[i]]["ob"]

(* --------------------------- deep computations -------------------------- *)
\* the values held by the observed object or array o
ChildrenOf(h, o) ==
  IF IsArray(o) THEN Range(h.items)
  ELSE IF o \in Holders THEN {h.own[o][k] : k \in OKeys}
  ELSE {}

\* the observed objects and arrays reachable from the objects in vs through
\* observed plain objects and arrays, VNodes excluded
RECURSIVE ReachableFrom(_, _, _)
ReachableFrom(h, vs, n) ==
  LET next == vs \cup {c \in UNION {ChildrenOf(h, o) : o \in vs} :
                         IsObject(c) /\ ~IsVNode(c) /\ h.ob[c].on}
  IN IF n = 0 \/ next = vs THEN vs ELSE ReachableFrom(h, next, n - 1)

DeepReach(h, v) ==
  IF IsObject(v) /\ ~IsVNode(v) /\ h.ob[v].on
  THEN ReachableFrom(h, {v}, Cardinality(Objects)) ELSE {}

\* a call of get() of the deep watcher has just returned
DeepEvaluated ==
  /\ heap.op # <<>> /\ heap.op[1] \in {"watch", "run"}
  /\ heap.trav = <<>> /\ heap.get = None

(* C34: deep computations.  When get() of the deep watcher has returned,    *)
(* the watcher is a subscriber of the Dep of every reactive property of     *)
(* every observed object reachable from the returned value through observed *)
(* plain objects and arrays; a write that notifies a Dep the watcher is     *)
(* subscribed to marks the watcher pending; and a run() that has returned   *)
(* has invoked the callback with the value it returned, also when that is   *)
(* the value cached before.                                                  *)
C34_DeepComputations ==
  /\ [] (DeepEvaluated =>
           \A o \in DeepReach(heap, heap.value) :
             o \in Holders =>
               \A k \in OKeys : heap.acc[o][k].on => "w" \in heap.dsubs[o][k])
  /\ [] (DeepEvaluated /\ heap.op[1] = "run" =>
           \E i \in ObsEvents(heap, "cb") : heap.oev[i].o = heap.value)
  /\ [][\A i \in ObsEvents(heap', "notify") :
          "w" \in heap.dsubs[heap'.oev[i].o][heap'.oev[i].k] => heap'.pending]_vars

\* C34 witness: run() of the deep watcher has returned the object E it had
\* cached, after a write to a property of E; E is reached from D.p, holds D
\* again, and the watcher is a subscriber of the properties of both
C34_Witness ==
  /\ DeepEvaluated /\ heap.op[1] = "run" /\ heap.value = "E"
  /\ \E i \in ObsEvents(heap, "cb") : heap.oev[i].o = "E" /\ heap.oev[i].k = "E"
  /\ heap.own["E"]["p"] = "D" /\ heap.ob["D"].on
  /\ "w" \in heap.dsubs["E"]["p"] /\ "w" \in heap.dsubs["E"]["q"]
  /\ "w" \in heap.dsubs["D"]["p"]

\* the step is the assignment o.k = v
Assigned(h, o, k) == h.op = <<"assign", o, k>>

(* C35: pre-existing descriptors.  A property that was non-configurable      *)
(* when its object was observed gets no accessor, no watcher subscribes to   *)
(* its Dep by reading it, and an assignment to it calls notify on no Dep and *)
(* leaves pending as it was.  A reactive property that had a getter and no   *)
(* setter: an assignment to it leaves the value its getter returns, its      *)
(* child wrapper and pending unchanged and calls notify on no Dep, while an  *)
(* evaluation that reads it subscribes the watcher to its Dep and goes on    *)
(* with the value the getter returns.                                        *)
C35_PreexistingDescriptors ==
  /\ [] (\A o \in Holders, k \in OKeys :
           heap.desc[o][k] = "fixed" =>
             ~heap.acc[o][k].on /\ "w" \notin heap.dsubs[o][k])
  /\ [][\A o \in Holders, k \in OKeys :
          Assigned(heap', o, k) /\ heap.desc[o][k] = "fixed" =>
            /\ ObsEvents(heap', "notify") = {}
            /\ heap'.pending = heap.pending]_vars
  /\ [][\A o \in Holders, k \in OKeys :
          Assigned(heap', o, k) /\ heap.desc[o][k] = "get" /\ heap.acc[o][k].on =>
            /\ heap'.own = heap.own /\ heap'.acc = heap.acc
            /\ ObsEvents(heap', "notify") = {}
            /\ heap'.pending = heap.pending]_vars
  /\ [] (Evaluated /\ heap.desc["D"]["p"] = "get" /\ heap.acc["D"]["p"].on =>
           /\ "w" \in heap.dsubs["D"]["p"]
           /\ heap.own["D"]["p"] \in Holders =>
                <<heap.own["D"]["p"], "p">> \in heap.reads
           /\ heap.own["D"]["p"] \notin Holders => heap.ret = heap.own["D"]["p"])

\* C35 witness: D.p has a getter only and returns E, E.p is non-configurable,
\* both objects are observed, the watcher has read D.p.p and subscribed to
\* the Dep of D.p only, and an assignment to D.p has just changed nothing
C35_Witness ==
  /\ Assigned(heap, "D", "p")
  /\ heap.desc["D"]["p"] = "get" /\ heap.acc["D"]["p"].on
  /\ heap.own["D"]["p"] = "E" /\ <<"E", "p">> \in heap.reads
  /\ "w" \in heap.dsubs["D"]["p"] /\ ~heap.pending
  /\ heap.desc["E"]["p"] = "fixed" /\ heap.ob["E"].on /\ ~heap.acc["E"]["p"].on

(* ----------------------- delivery of nextTick callbacks ------------------ *)
\* the callbacks registered and not yet invoked, in the order flushCallbacks
\* reaches them: the rest of its copy, then the callbacks array
TickWaiting == tick.copies \o tick.callbacks

TickCtxs(q) == {q[i].ctx : i \in DOMAIN q}

\* the contexts of the callbacks invoked by the step, in the order of the calls
TickInvoked(e) ==
  LET calls == SelectSeq(e, LAMBDA x : x.t = "tick")
  IN [i \in DOMAIN calls |-> calls[i].ctx]

\* every step invokes callbacks from the head of the waiting ones, keeps the
\* others in their order, and adds a callback only at the end, under the
\* next context
TickFifo ==
  LET inv == TickInvoked(ev')
      n == Len(inv)
      rest == SubSeq(TickWaiting, n + 1, Len(TickWaiting))
  IN /\ n <= Len(TickWaiting)
     /\ \A i \in DOMAIN inv : inv[i] = TickWaiting[i].ctx
     /\ IF tick'.count = tick.count
        THEN TickWaiting' = rest
        ELSE /\ tick'.count = tick.count + 1
             /\ Len(TickWaiting') = Len(rest) + 1
             /\ SubSeq(TickWaiting', 1, Len(rest)) = rest
             /\ Last(TickWaiting').ctx = tick'.count

\* no context is registered twice
TickUnique ==
  /\ \A i, j \in DOMAIN TickWaiting :
       TickWaiting[i].ctx = TickWaiting[j].ctx => i = j
  /\ \A c \in TickCtxs(TickWaiting) : c \in 1..tick.count

\* a callback registered while flushCallbacks is running goes to the
\* callbacks array, not to the copy being flushed, and a timer is scheduled
\* for it unless one already is for a callback registered during this flush
TickLater ==
  tick'.count > tick.count /\ stack # <<>> =>
    /\ tick'.copies = tick.copies
    /\ Last(tick'.callbacks).ctx = tick'.count
    /\ tick'.pending /\ tick'.timers = 1
    /\ tick.callbacks = <<>> => tick.timers = 0

\* every registered callback is invoked
TickDelivered ==
  \A c \in 1..MaxTicks :
    (c \in TickCtxs(TickWaiting)) ~> (c \in Range(TickInvoked(ev)))

TickCaught ==
  exc /\ stack # <<>> /\ Top(Cur).kind = "tick" =>
    /\ \E i \in DOMAIN ev' :
         ev'[i].t = "error" /\ ev'[i].vm = Top(Cur).ctx
    /\ ~exc' /\ stack' = ButLast(stack) /\ tick' = tick

HandleErrorFrames == {i \in DOMAIN stack : stack[i].kind = "handleError"}

Count(q, x) == Cardinality({i \in DOMAIN q : q[i] = x})

\* the hooks are visited from the first hook of the parent on, one ancestor
\* after the other
VisitedInOrder(h) ==
  /\ \A i \in DOMAIN h.visited : h.visited[i] = i
  /\ Len(h.visited) <= HookTotal(Cur)
  /\ \A i \in DOMAIN h.visited :
       i > 1 => HookOwner(Cur, h.visited[i - 1]) <= HookOwner(Cur, h.visited[i])

\* what a call of handleError that has returned has done
Handled(e) ==
  /\ VisitedInOrder(e)
  /\ ~e.captured => Len(e.visited) = e.total
  /\ Count(e.reports, 0) = (IF e.captured THEN 0 ELSE 1)
  /\ Count(e.reports, 1) = Len(e.threw)
  /\ \A i \in DOMAIN e.threw :
       e.threw[i] < e.total => e.threw[i] + 1 \in Range(e.visited)
  /\ e.restored = e.saved

\* once a hook has returned false, handleError calls no hook and no handler
\* and returns
CaptureStops ==
  stack # <<>> /\ Top(Cur).kind = "handleError" /\ Top(Cur).captured =>
    /\ \A i \in DOMAIN ev' : ev'[i].t \notin {"errorCaptured", "error", "log"}
    /\ \E i \in DOMAIN ev' : ev'[i].t = "handled"
    /\ stack' = ButLast(stack)

SuspendKinds == {"handleError", "callHook", "getData"}

Touched(st) == [i \in {j \in DOMAIN st : st[j].kind = "get"} |-> st[i].touched]

\* a step of the code of a hook, of data() or of an error handler leaves
\* the subscriber lists and the dependency sets as they are
NoEdgeInHooks ==
  stack # <<>> /\ Top(Cur).kind \in HookKinds =>
    /\ subs' = subs /\ W' = W
    /\ \A i \in DOMAIN Touched(stack) : stack'[i].touched = stack[i].touched

\* while one of the functions is running, the stack of active computations
\* is the one it found, with no computation on top of it
Suspended ==
  \A i \in DOMAIN stack :
    stack[i].kind \in SuspendKinds =>
      /\ Len(targetStack) > Len(stack[i].saved)
      /\ SubSeq(targetStack, 1, Len(stack[i].saved)) = stack[i].saved
      /\ targetStack[Len(stack[i].saved) + 1] = NoTarget

(* C31: tracking is suspended inside hooks.  A step of a lifecycle handler, *)
(* of data(), of an errorCaptured hook or of errorHandler adds no           *)
(* subscriber and no dependency, also while get() of a watcher is on the    *)
(* call stack; while callHook, getData or handleError runs, no computation  *)
(* is active; when one of them returns, after its user code has returned or *)
(* thrown, the stack of active computations is what it was at the call; and *)
(* the read the expression makes afterwards is recorded for its watcher.    *)
C31_TrackingSuspended ==
  /\ [][NoEdgeInHooks]_vars
  /\ [] Suspended
  /\ [] (\A k \in DOMAIN stack :
           stack[k].kind \in HookKinds => DepTarget(Cur) = NoTarget)
  /\ [] (\A e \in Events("resumed") : e.restored = e.saved)
  /\ [] (\A e \in Events("handled") : e.restored = e.saved)
  /\ [] (subs["b"] = <<>>)
  /\ [] (\A e \in Events("getEnd") :
           W[e.w].getter \in {ExprHook, ExprData} =>
             W[e.w].read = {"a"} /\ e.w \in Range(subs["a"]))

\* C31 witness: during get() of a watcher a lifecycle handler read a
\* property and threw, handleError called the errorCaptured hooks, which
\* read it too, and has returned to callHook; nothing subscribed
C31_Witness ==
  \E e \in Events("handled") :
    /\ Len(stack) > 1 /\ Top(Cur).kind = "callHook"
    /\ stack[Len(stack) - 1].kind = "get"
    /\ e.saved = <<stack[Len(stack) - 1].w, NoTarget>>
    /\ e.visited # <<>> /\ e.threw # <<>>
    /\ subs["b"] = <<>> /\ stack[Len(stack) - 1].touched = {}

(* --------------------------- observation switch -------------------------- *)
\* the step was a turn of the loop of initProps or updateChildComponent that
\* called validateProp
Validated ==
  /\ heap'.op # <<>> /\ heap'.op[1] = "propsLoop"
  /\ heap.props.i <= heap.props.n

(* C32: the observation switch is restored.  The claim as stated: in every  *)
(* state in which neither initProps nor updateChildComponent is running,    *)
(* also after one of them was left by an exception of a default factory or  *)
(* of a validator, shouldObserve is true; and a call of validateProp        *)
(* leaves shouldObserve as it found it.                                     *)
C32_ObservationSwitch ==
  /\ [] (heap.props = NoProps => heap.shouldObserve)
  /\ [][Validated => heap'.shouldObserve = heap.shouldObserve]_vars

(* -------------------------------- $destroy ------------------------------- *)
\* the instances that use o as root data and are not destroyed
LiveOn(o) ==
  {v \in 1..MaxVms :
     heap.vms[v].created /\ ~heap.vms[v].isDestroyed /\ heap.vms[v].data = o}

(* C40: destroy is complete and counted once.  The claim as stated: when no *)
(* call of $destroy is running, every watcher of a destroyed instance is    *)
(* inactive and the vmCount of every observed data object is the number of  *)
(* instances using it that are not destroyed, also after $destroy was       *)
(* called again or from the instance's own hooks; vmCount is never          *)
(* negative.                                                                *)
C40_DestroyCounted ==
  /\ \A o \in {"D", "E"} : heap.ob[o].vmCount >= 0
  /\ heap.dstack = <<>> =>
       /\ \A o \in {"D", "E"} : heap.ob[o].vmCount = Cardinality(LiveOn(o))
       /\ \A v \in 1..MaxVms :
            heap.vms[v].isDestroyed =>
              /\ ~heap.vms[v].watcher
              /\ \A i \in DOMAIN heap.vms[v].watchers : ~heap.vms[v].watchers[i]
====
